---- MODULE Spec2Model ----
(***************************************************************************)
(* Model of the SRE-stats dashboard extension: the aggregation functions   *)
(* of the overview, SRE-stats, nodes, pods and events pages, applied to    *)
(* the host's node, pod and event collections.                             *)
(*                                                                         *)
(* The host collections are the inputs (nodesStore.items, podsStore.items, *)
(* eventStore.items); every page keeps the values its render computes and  *)
(* renders again when a store it observes or its own state changes.        *)
(***************************************************************************)
EXTENDS Integers, Sequences, FiniteSets, TLC

VARIABLES
    nodes,       \* nodesStore.items
    pods,        \* podsStore.items
    events,      \* eventStore.items
    overview,    \* values computed by a render of OverviewPage
    sreStats,    \* values computed by a render of SreStatsPage
    nodesPage,   \* values computed by a render of NodesPage
    podsPage,    \* values computed by a render of PodsPage
    eventsPage,  \* values computed by a render of EventsPage
    showOnlyWarnings,  \* EventsPage state
    timeFilter,        \* EventsPage state
    sortColumn,        \* NodesPage state
    sortDirection,     \* NodesPage state
    dirty,       \* the pages whose render is scheduled
    changed,     \* per page, the stores whose items are another array than at its last render
    shown,       \* per page, what its last render gave the host to display
    markupRaises,       \* whether an accessor of a host object raises while markup is built
    expandedNodes,      \* NodesPage state
    expandedReasons,    \* EventsPage state
    expandedNamespaces, \* PodsPage state
    showOnlyIssues,     \* PodsPage state
    mounted,     \* the pages whose mount effect has run and whose cleanup has not
    disposers    \* per page, the disposers its mount effect holds and the calls made of each

vars == <<nodes, pods, events, overview, sreStats, nodesPage, podsPage, eventsPage,
          showOnlyWarnings, timeFilter, sortColumn, sortDirection, dirty, changed, shown,
          markupRaises,
                   expandedNodes, expandedReasons, expandedNamespaces, showOnlyIssues,
                   mounted, disposers>>

Pages == {"overview", "sreStats", "nodesPage", "podsPage", "eventsPage"}

-----------------------------------------------------------------------------
(* Bounds of the model: the longest collections explored.                  *)

MaxNodes == 2

MaxPods == 3

MaxEvents == 3

MaxHealthItems == 2

MaxTopNamespaces == 11
\* the longest event collection the resource samples are explored with
MaxSampleEvents == 12
\* the longest event collection the time windows are explored with
MaxWindowEvents == 2
\* the longest pod and event collections the copies of the aggregations are
\* compared on
MaxCopyItems == 2

-----------------------------------------------------------------------------
(* JavaScript values and library behaviour the code relies on.             *)

\* an absent (undefined) string-valued property
Undefined == "undefined"

\* an absent numeric property is the empty tuple, a present one <<n>>
NoNumber == <<>>

Some(n) == <<n>>

\* sum of f over the indices 1..n
RECURSIVE SumTo(_, _)
SumTo(f, n) == IF n = 0 THEN 0 ELSE f[n] + SumTo(f, n - 1)

SumSeq(s) == SumTo(s, Len(s))

\* Array.prototype.filter
FilterSeq(s, keep(_)) == SelectSeq(s, keep)

\* Array.prototype.map
MapSeq(s, f(_)) == [i \in 1..Len(s) |-> f(s[i])]

\* a for-of loop over s that updates an accumulator
Fold(step(_, _), init, s) ==
    LET acc[i \in 0..Len(s)] == IF i = 0 THEN init ELSE step(acc[i - 1], s[i])
    IN  acc[Len(s)]

\* Array.prototype.sort with a consistent comparator: the sort is stable, so
\* element i lands after every element that compares lower and after every
\* equal element that stood before it.
SortBy(s, cmp(_, _)) ==
    LET n == Len(s)
        rank(i) == 1 + Cardinality({j \in 1..n :
                        \/ cmp(s[j], s[i]) < 0
                        \/ cmp(s[j], s[i]) = 0 /\ j < i})
    IN  [k \in 1..n |-> s[CHOOSE i \in 1..n : rank(i) = k]]

\* Array.prototype.slice(0, n)
SliceTo(s, n) == SubSeq(s, 1, IF Len(s) < n THEN Len(s) ELSE n)

\* A Map is the sequence of its [key, value] entries in insertion order.
MapHas(m, k) == \E i \in 1..Len(m) : m[i].key = k

MapGet(m, k) == m[CHOOSE i \in 1..Len(m) : m[i].key = k].value

MapSet(m, k, v) ==
    IF MapHas(m, k)
    THEN [i \in 1..Len(m) |-> IF m[i].key = k THEN [key |-> k, value |-> v] ELSE m[i]]
    ELSE Append(m, [key |-> k, value |-> v])

\* A Set is the sequence of its members in insertion order.
SetAdd(s, x) == IF \E i \in 1..Len(s) : s[i] = x THEN s ELSE Append(s, x)

\* Math.max(a, b)
Max(a, b) == IF a >= b THEN a ELSE b

\* Math.round of the rational num / den, den > 0: the nearest integer, halves
\* rounded towards +infinity. The health score is a sum of multiples of
\* 40/nodes and 40/pods: with fewer than 16 of each it never lies half-way
\* between two integers, so the floating-point sum rounds as the exact one.
Round(num, den) == (2 * num + den) \div (2 * den)

-----------------------------------------------------------------------------
(* Host objects (Node, Pod, KubeEvent) as the pages read them.             *)

\* formatNodeTaint of the host library: key=value:effect, or key:effect when
\* the taint has no value
formatNodeTaint(taint) ==
    IF taint.value # Undefined /\ taint.value # ""
    THEN taint.key \o "=" \o taint.value \o ":" \o taint.effect
    ELSE taint.key \o ":" \o taint.effect

\* Node.getWarningConditions of the host library: the active conditions
\* other than the good ones
getWarningConditions(node) ==
    FilterSeq(node.conditions,
              LAMBDA c : c.status = "True"
                         /\ c.type \notin {"Ready", "HostUpgrades", "SchedulingDisabled"})

\* Array.prototype.find for the condition of type "Ready": <<>> when absent
findReadyCondition(node) ==
    LET ready == FilterSeq(node.conditions, LAMBDA c : c.type = "Ready")
    IN  IF ready = <<>> THEN <<>> ELSE <<Head(ready)>>

\* KubeEvent.isWarning of the host library
isWarning(event) == event.type = "Warning"

\* event.count ?? 1
countOrOne(event) == IF event.count = NoNumber THEN 1 ELSE event.count[1]

\* the Ready condition consulted before the unschedulable flag
getNodeStatus_ConditionFirst(node) ==
    LET readyCondition == findReadyCondition(node)
    IN  IF readyCondition = <<>> THEN "Unknown"
        ELSE IF readyCondition[1].status # "True" THEN "NotReady"
        ELSE IF node.unschedulable THEN "SchedulingDisabled" ELSE "Ready"

getNodeStatus(node) ==
    IF node.unschedulable THEN "SchedulingDisabled"
    ELSE LET readyCondition == findReadyCondition(node)
         IN  IF readyCondition = <<>> THEN "Unknown"
             ELSE IF readyCondition[1].status = "True" THEN "Ready" ELSE "NotReady"

-----------------------------------------------------------------------------
(* sre-stats-page.tsx: the node aggregations.                              *)

\* the switch without its default branch: a node of status Unknown is dropped
SreStatsPage_nodeStatusCounts_NoDefault(ns) ==
    Fold(LAMBDA summary, node :
            LET status == getNodeStatus(node)
            IN  IF status = "Ready" THEN [summary EXCEPT !.ready = @ + 1]
                ELSE IF status = "NotReady" THEN [summary EXCEPT !.notReady = @ + 1]
                ELSE IF status = "SchedulingDisabled"
                     THEN [summary EXCEPT !.schedulingDisabled = @ + 1]
                ELSE summary,
         [total |-> Len(ns), ready |-> 0, notReady |-> 0, schedulingDisabled |-> 0,
          unknown |-> 0, warningConditions |-> 0],
         ns)

SreStatsPage_nodeStatusCounts(ns) ==
    Fold(LAMBDA summary, node :
            LET status == getNodeStatus(node)
                counted ==
                    IF status = "Ready" THEN [summary EXCEPT !.ready = @ + 1]
                    ELSE IF status = "NotReady" THEN [summary EXCEPT !.notReady = @ + 1]
                    ELSE IF status = "SchedulingDisabled"
                         THEN [summary EXCEPT !.schedulingDisabled = @ + 1]
                    ELSE [summary EXCEPT !.unknown = @ + 1]
            IN  [counted EXCEPT !.warningConditions = @ + Len(getWarningConditions(node))],
         [total |-> Len(ns), ready |-> 0, notReady |-> 0, schedulingDisabled |-> 0,
          unknown |-> 0, warningConditions |-> 0],
         ns)

\* the node names kept in an array instead of a Set: a node is counted once
\* per taint occurrence
buildTaintSummary_NodeArray(ns) ==
    LET taintSummary ==
            Fold(LAMBDA m, node :
                    Fold(LAMBDA m2, taint :
                            LET taintLabel == formatNodeTaint(taint)
                                entry == IF MapHas(m2, taintLabel) THEN MapGet(m2, taintLabel)
                                         ELSE [nodes |-> <<>>, occurrences |-> 0]
                            IN  MapSet(m2, taintLabel,
                                       [nodes |-> Append(entry.nodes, node.name),
                                        occurrences |-> entry.occurrences + 1]),
                         m, node.taints),
                 <<>>, ns)
    IN  SortBy(MapSeq(taintSummary,
                      LAMBDA e : [taint |-> e.key, nodes |-> Len(e.value.nodes),
                                  occurrences |-> e.value.occurrences]),
               LAMBDA a, b : b.occurrences - a.occurrences)

\* the entries left in the Map's insertion order
buildTaintSummary_Unsorted(ns) ==
    LET taintSummary ==
            Fold(LAMBDA m, node :
                    Fold(LAMBDA m2, taint :
                            LET taintLabel == formatNodeTaint(taint)
                                entry == IF MapHas(m2, taintLabel) THEN MapGet(m2, taintLabel)
                                         ELSE [nodes |-> <<>>, occurrences |-> 0]
                            IN  MapSet(m2, taintLabel,
                                       [nodes |-> SetAdd(entry.nodes, node.name),
                                        occurrences |-> entry.occurrences + 1]),
                         m, node.taints),
                 <<>>, ns)
    IN  MapSeq(taintSummary,
               LAMBDA e : [taint |-> e.key, nodes |-> Len(e.value.nodes),
                           occurrences |-> e.value.occurrences])

buildTaintSummary(ns) ==
    LET taintSummary ==
            Fold(LAMBDA m, node :
                    Fold(LAMBDA m2, taint :
                            LET taintLabel == formatNodeTaint(taint)
                                entry == IF MapHas(m2, taintLabel) THEN MapGet(m2, taintLabel)
                                         ELSE [nodes |-> <<>>, occurrences |-> 0]
                            IN  MapSet(m2, taintLabel,
                                       [nodes |-> SetAdd(entry.nodes, node.name),
                                        occurrences |-> entry.occurrences + 1]),
                         m, node.taints),
                 <<>>, ns)
    IN  SortBy(MapSeq(taintSummary,
                      LAMBDA e : [taint |-> e.key, nodes |-> Len(e.value.nodes),
                                  occurrences |-> e.value.occurrences]),
               LAMBDA a, b : b.occurrences - a.occurrences)

getPodPhase(pod) ==
    IF pod.phase \in {"Running", "Pending", "Failed", "Succeeded"} THEN pod.phase
    ELSE "Unknown"

\* the count of an event replaces the namespace's sum instead of adding to it
buildWarningEventsByNamespace_Overwrite(evs) ==
    Fold(LAMBDA warnings, event :
            IF ~isWarning(event) THEN warnings
            ELSE LET namespace ==
                         IF event.ns # Undefined THEN event.ns
                         ELSE IF event.involvedObject.namespace # Undefined
                              THEN event.involvedObject.namespace
                         ELSE "<cluster>"
                     count == countOrOne(event)
                 IN  MapSet(warnings, namespace, count),
         <<>>, evs)

buildWarningEventsByNamespace(evs) ==
    Fold(LAMBDA warnings, event :
            IF ~isWarning(event) THEN warnings
            ELSE LET namespace ==
                         IF event.ns # Undefined THEN event.ns
                         ELSE IF event.involvedObject.namespace # Undefined
                              THEN event.involvedObject.namespace
                         ELSE "<cluster>"
                     count == countOrOne(event)
                 IN  MapSet(warnings, namespace,
                            (IF MapHas(warnings, namespace) THEN MapGet(warnings, namespace)
                             ELSE 0) + count),
         <<>>, evs)

\* the switch without its default branch: a pod of another phase is counted
\* in total but under no phase
countPhase_NoDefault(entry, phase) ==
    IF phase = "Running" THEN [entry EXCEPT !.running = @ + 1]
    ELSE IF phase = "Pending" THEN [entry EXCEPT !.pending = @ + 1]
    ELSE IF phase = "Failed" THEN [entry EXCEPT !.failed = @ + 1]
    ELSE IF phase = "Succeeded" THEN [entry EXCEPT !.succeeded = @ + 1]
    ELSE entry

\* the score computed without the second pass's warning count: the restarts
\* are left out of the sum
scoreEntry_NoRestarts(entry, warningEventsByNamespace) ==
    LET w == IF MapHas(warningEventsByNamespace, entry.namespace)
             THEN MapGet(warningEventsByNamespace, entry.namespace) ELSE 0
    IN  [entry EXCEPT !.warningEvents = w, !.issueScore = entry.issues + w]

\* the switch on the phase: one counter of the entry is incremented
countPhase(entry, phase) ==
    IF phase = "Running" THEN [entry EXCEPT !.running = @ + 1]
    ELSE IF phase = "Pending" THEN [entry EXCEPT !.pending = @ + 1]
    ELSE IF phase = "Failed" THEN [entry EXCEPT !.failed = @ + 1]
    ELSE IF phase = "Succeeded" THEN [entry EXCEPT !.succeeded = @ + 1]
    ELSE [entry EXCEPT !.unknown = @ + 1]

\* the pass over the entries after the pods: warningEvents and issueScore
scoreEntry(entry, warningEventsByNamespace) ==
    LET w == IF MapHas(warningEventsByNamespace, entry.namespace)
             THEN MapGet(warningEventsByNamespace, entry.namespace) ELSE 0
    IN  [entry EXCEPT !.warningEvents = w,
                      !.issueScore = entry.issues + entry.restarts + w]

\* the comparator without its first key
compareNamespaceStats_TotalOnly(a, b) == b.total - a.total

\* b.issues - a.issues || b.total - a.total
compareNamespaceStats(a, b) ==
    IF b.issues - a.issues # 0 THEN b.issues - a.issues ELSE b.total - a.total

\* one entry per namespace of the warning map instead of per namespace of
\* the pods
buildNamespacePodStats_WarningNamespaces(ps, warningEventsByNamespace) ==
    MapSeq(warningEventsByNamespace,
           LAMBDA kv : [namespace |-> kv.key, running |-> 0, pending |-> 0, failed |-> 0,
                        succeeded |-> 0, unknown |-> 0, issues |-> 0, restarts |-> 0,
                        warningEvents |-> kv.value, issueScore |-> kv.value, total |-> 0])

buildNamespacePodStats(ps, warningEventsByNamespace) ==
    LET stats ==
            Fold(LAMBDA m, pod :
                    LET namespace == IF pod.ns # Undefined THEN pod.ns ELSE "<unknown>"
                        entry == IF MapHas(m, namespace) THEN MapGet(m, namespace)
                                 ELSE [namespace |-> namespace, running |-> 0, pending |-> 0,
                                       failed |-> 0, succeeded |-> 0, unknown |-> 0,
                                       issues |-> 0, restarts |-> 0,
                                       warningEvents |->
                                           IF MapHas(warningEventsByNamespace, namespace)
                                           THEN MapGet(warningEventsByNamespace, namespace)
                                           ELSE 0,
                                       issueScore |-> 0, total |-> 0]
                        phase == getPodPhase(pod)
                        e1 == [entry EXCEPT !.total = @ + 1]
                        e2 == countPhase(e1, phase)
                        e3 == IF pod.hasIssues THEN [e2 EXCEPT !.issues = @ + 1] ELSE e2
                        e4 == [e3 EXCEPT !.restarts = @ + pod.restarts]
                    IN  MapSet(m, namespace, e4),
                 <<>>, ps)
        scored == MapSeq(stats, LAMBDA kv : scoreEntry(kv.value, warningEventsByNamespace))
    IN  SortBy(scored, compareNamespaceStats)

buildWarningReasons(evs) ==
    LET reasons ==
            Fold(LAMBDA m, event :
                    IF ~isWarning(event) THEN m
                    ELSE LET reason == IF event.reason # Undefined THEN event.reason
                                       ELSE "<unknown>"
                             count == countOrOne(event)
                         IN  MapSet(m, reason,
                                    (IF MapHas(m, reason) THEN MapGet(m, reason) ELSE 0) + count),
                 <<>>, evs)
    IN  SortBy(MapSeq(reasons, LAMBDA e : [reason |-> e.key, count |-> e.value]),
               LAMBDA a, b : b.count - a.count)

\* the first eight entries taken before the sort instead of after it
SreStatsPage_topNamespaces_SliceFirst(namespaceStats) ==
    SortBy(SliceTo(FilterSeq(namespaceStats, LAMBDA entry : entry.issueScore > 0), 8),
           LAMBDA a, b : b.issueScore - a.issueScore)

SreStatsPage_topNamespaces(namespaceStats) ==
    SliceTo(SortBy(FilterSeq(namespaceStats, LAMBDA entry : entry.issueScore > 0),
                   LAMBDA a, b : b.issueScore - a.issueScore),
            8)

\* what namespaceStats holds once topNamespaces has run: Array.prototype.sort
\* reorders its receiver, here the array filter returned from the copy
\* [...namespaceStats], and namespaceStats keeps its elements and their order
SreStatsPage_topNamespaces_namespaceStats(namespaceStats) == namespaceStats

\* Math.max(0, ...scores)
MaxScore(namespaceStats) ==
    Fold(LAMBDA m, entry : Max(m, entry.issueScore), 0, namespaceStats)

\* ratio = issueScore / maxScore compared with 0.75, 0.5 and 0.25; the
\* quotients of the small integers involved are compared exactly
\* the chain of thresholds tested from the lowest
Intensity_LowestFirst(issueScore, maxScore) ==
    IF maxScore = 0 THEN 0
    ELSE IF issueScore > 0 THEN 1
    ELSE IF 4 * issueScore >= maxScore THEN 2
    ELSE IF 2 * issueScore >= maxScore THEN 3
    ELSE IF 4 * issueScore >= 3 * maxScore THEN 4
    ELSE 0

\* the thresholds compared with > instead of >=
Intensity_Strict(issueScore, maxScore) ==
    IF maxScore = 0 THEN 0
    ELSE IF 4 * issueScore > 3 * maxScore THEN 4
    ELSE IF 2 * issueScore > maxScore THEN 3
    ELSE IF 4 * issueScore > maxScore THEN 2
    ELSE IF issueScore > 0 THEN 1
    ELSE 0

Intensity(issueScore, maxScore) ==
    IF maxScore = 0 THEN 0
    ELSE IF 4 * issueScore >= 3 * maxScore THEN 4
    ELSE IF 2 * issueScore >= maxScore THEN 3
    ELSE IF 4 * issueScore >= maxScore THEN 2
    ELSE IF issueScore > 0 THEN 1
    ELSE 0

SreStatsPage_heatmapEntries(namespaceStats) ==
    LET maxScore == MaxScore(namespaceStats)
    IN  MapSeq(namespaceStats,
               LAMBDA entry :
                   [namespace |-> entry.namespace, running |-> entry.running,
                    pending |-> entry.pending, failed |-> entry.failed,
                    succeeded |-> entry.succeeded, unknown |-> entry.unknown,
                    issues |-> entry.issues, restarts |-> entry.restarts,
                    warningEvents |-> entry.warningEvents, issueScore |-> entry.issueScore,
                    total |-> entry.total,
                    intensity |-> Intensity(entry.issueScore, maxScore)])

SreStatsPage_eventSummary(evs) ==
    LET counted ==
            Fold(LAMBDA acc, event :
                    LET count == countOrOne(event)
                    IN  IF isWarning(event) THEN [acc EXCEPT !.warnings = @ + count]
                        ELSE IF event.type = "Normal" THEN [acc EXCEPT !.normals = @ + count]
                        ELSE [acc EXCEPT !.others = @ + count],
                 [warnings |-> 0, normals |-> 0, others |-> 0], evs)
    IN  [warnings |-> counted.warnings, normals |-> counted.normals, others |-> counted.others,
         total |-> counted.warnings + counted.normals + counted.others]

-----------------------------------------------------------------------------
(* nodes-page.tsx: its own copies of the node aggregations.                *)

NodesPage_getNodeStatus(node) ==
    IF node.unschedulable THEN "SchedulingDisabled"
    ELSE LET readyCondition == findReadyCondition(node)
         IN  IF readyCondition = <<>> THEN "Unknown"
             ELSE IF readyCondition[1].status = "True" THEN "Ready" ELSE "NotReady"

NodesPage_nodeStatusCounts(ns) ==
    Fold(LAMBDA summary, node :
            LET status == NodesPage_getNodeStatus(node)
                counted ==
                    IF status = "Ready" THEN [summary EXCEPT !.ready = @ + 1]
                    ELSE IF status = "NotReady" THEN [summary EXCEPT !.notReady = @ + 1]
                    ELSE IF status = "SchedulingDisabled"
                         THEN [summary EXCEPT !.schedulingDisabled = @ + 1]
                    ELSE [summary EXCEPT !.unknown = @ + 1]
            IN  [counted EXCEPT !.warningConditions = @ + Len(getWarningConditions(node))],
         [total |-> Len(ns), ready |-> 0, notReady |-> 0, schedulingDisabled |-> 0,
          unknown |-> 0, warningConditions |-> 0],
         ns)

NodesPage_buildTaintSummary(ns) ==
    LET taintSummary ==
            Fold(LAMBDA m, node :
                    Fold(LAMBDA m2, taint :
                            LET taintLabel == formatNodeTaint(taint)
                                entry == IF MapHas(m2, taintLabel) THEN MapGet(m2, taintLabel)
                                         ELSE [nodes |-> <<>>, occurrences |-> 0]
                            IN  MapSet(m2, taintLabel,
                                       [nodes |-> SetAdd(entry.nodes, node.name),
                                        occurrences |-> entry.occurrences + 1]),
                         m, node.taints),
                 <<>>, ns)
    IN  SortBy(MapSeq(taintSummary,
                      LAMBDA e : [taint |-> e.key, nodes |-> Len(e.value.nodes),
                                  occurrences |-> e.value.occurrences]),
               LAMBDA a, b : b.occurrences - a.occurrences)

\* getPodsOnNode: the pods scheduled on the node
getPodsOnNode(ps, nodeName) == FilterSeq(ps, LAMBDA pod : pod.nodeName = nodeName)

\* the number a node name ends with: names are compared through it
NameOrder(name) == CHOOSE i \in 0..9 : name = "node-" \o ToString(i)

severityOrder(status) ==
    CASE status = "NotReady" -> 3
      [] status = "SchedulingDisabled" -> 2
      [] status = "Unknown" -> 1
      [] status = "Ready" -> 0

\* the switch of the sort comparator, for the columns name and status;
\* a.getName().localeCompare(b.getName()) has the sign of the difference of
\* the numbers the two names end with
NodesPage_compareValue(a, b, column) ==
    CASE column = "name" -> NameOrder(a.name) - NameOrder(b.name)
      [] column = "status" ->
            severityOrder(NodesPage_getNodeStatus(b)) - severityOrder(NodesPage_getNodeStatus(a))

\* the sortedNodes memo with an empty filterText. The comparator of the
\* column pods calls getPodsOnNode, a const the component declares only
\* after this memo has run: the call raises a ReferenceError. sort calls the
\* comparator as soon as the array has two elements.
NodesPage_sortedNodes(ns, column, direction) ==
    LET filtered == ns
    IN  IF column = "pods" /\ Len(filtered) >= 2
        THEN [raised |-> TRUE, value |-> <<>>]
        ELSE [raised |-> FALSE,
              value |-> IF column = "pods" THEN filtered
                        ELSE SortBy(filtered,
                                    LAMBDA a, b :
                                        LET compareValue == NodesPage_compareValue(a, b, column)
                                        IN  IF direction = "asc" THEN compareValue
                                            ELSE 0 - compareValue)]

\* nodes sorted where it stands, without the copy
NodesPage_sortedNodes_nodes_Sorted(ns, column, direction) ==
    NodesPage_sortedNodes(ns, column, direction).value

\* what nodes holds once sortedNodes has run: the filter and the sort work
\* on the copy [...nodes]
NodesPage_sortedNodes_nodes(ns, column, direction) == ns

-----------------------------------------------------------------------------
(* pods-page.tsx: its own copies of the pod aggregations.                  *)

PodsPage_getPodPhase(pod) ==
    IF pod.phase \in {"Running", "Pending", "Failed", "Succeeded"} THEN pod.phase
    ELSE "Unknown"

PodsPage_buildWarningEventsByNamespace(evs) ==
    Fold(LAMBDA warnings, event :
            IF ~isWarning(event) THEN warnings
            ELSE LET namespace ==
                         IF event.ns # Undefined THEN event.ns
                         ELSE IF event.involvedObject.namespace # Undefined
                              THEN event.involvedObject.namespace
                         ELSE "<cluster>"
                     count == countOrOne(event)
                 IN  MapSet(warnings, namespace,
                            (IF MapHas(warnings, namespace) THEN MapGet(warnings, namespace)
                             ELSE 0) + count),
         <<>>, evs)

\* the switch on the phase: one counter of the entry is incremented
PodsPage_countPhase(entry, phase) ==
    IF phase = "Running" THEN [entry EXCEPT !.running = @ + 1]
    ELSE IF phase = "Pending" THEN [entry EXCEPT !.pending = @ + 1]
    ELSE IF phase = "Failed" THEN [entry EXCEPT !.failed = @ + 1]
    ELSE IF phase = "Succeeded" THEN [entry EXCEPT !.succeeded = @ + 1]
    ELSE [entry EXCEPT !.unknown = @ + 1]

\* the score of the pods page's copy without the warning events
PodsPage_scoreEntry_NoWarnings(entry, warningEventsByNamespace) ==
    [entry EXCEPT !.issueScore = entry.issues + entry.restarts]

\* the pass over the entries after the pods: warningEvents and issueScore
PodsPage_scoreEntry(entry, warningEventsByNamespace) ==
    LET w == IF MapHas(warningEventsByNamespace, entry.namespace)
             THEN MapGet(warningEventsByNamespace, entry.namespace) ELSE 0
    IN  [entry EXCEPT !.warningEvents = w,
                      !.issueScore = entry.issues + entry.restarts + w]

PodsPage_buildNamespacePodStats(ps, warningEventsByNamespace) ==
    LET stats ==
            Fold(LAMBDA m, pod :
                    LET namespace == IF pod.ns # Undefined THEN pod.ns ELSE "<unknown>"
                        entry == IF MapHas(m, namespace) THEN MapGet(m, namespace)
                                 ELSE [namespace |-> namespace, running |-> 0, pending |-> 0,
                                       failed |-> 0, succeeded |-> 0, unknown |-> 0,
                                       issues |-> 0, restarts |-> 0,
                                       warningEvents |->
                                           IF MapHas(warningEventsByNamespace, namespace)
                                           THEN MapGet(warningEventsByNamespace, namespace)
                                           ELSE 0,
                                       issueScore |-> 0, total |-> 0]
                        phase == PodsPage_getPodPhase(pod)
                        e1 == [entry EXCEPT !.total = @ + 1]
                        e2 == PodsPage_countPhase(e1, phase)
                        e3 == IF pod.hasIssues THEN [e2 EXCEPT !.issues = @ + 1] ELSE e2
                        e4 == [e3 EXCEPT !.restarts = @ + pod.restarts]
                    IN  MapSet(m, namespace, e4),
                 <<>>, ps)
        scored == MapSeq(stats, LAMBDA kv : PodsPage_scoreEntry(kv.value, warningEventsByNamespace))
    IN  SortBy(scored,
               LAMBDA a, b : IF b.issues - a.issues # 0 THEN b.issues - a.issues
                             ELSE b.total - a.total)

PodsPage_topNamespaces(namespaceStats) ==
    SliceTo(SortBy(FilterSeq(namespaceStats, LAMBDA entry : entry.issueScore > 0),
                   LAMBDA a, b : b.issueScore - a.issueScore),
            10)

\* what namespaceStats holds once topNamespaces has run: the sort reorders
\* the array filter returned from the copy [...namespaceStats]
PodsPage_topNamespaces_namespaceStats(namespaceStats) == namespaceStats

PodsPage_heatmapEntries(namespaceStats) ==
    LET maxScore == MaxScore(namespaceStats)
    IN  MapSeq(namespaceStats,
               LAMBDA entry :
                   [namespace |-> entry.namespace, running |-> entry.running,
                    pending |-> entry.pending, failed |-> entry.failed,
                    succeeded |-> entry.succeeded, unknown |-> entry.unknown,
                    issues |-> entry.issues, restarts |-> entry.restarts,
                    warningEvents |-> entry.warningEvents, issueScore |-> entry.issueScore,
                    total |-> entry.total,
                    intensity |-> Intensity(entry.issueScore, maxScore)])

PodsPage_filteredNamespaceStats(namespaceStats, onlyIssues) ==
    IF ~onlyIssues THEN namespaceStats
    ELSE FilterSeq(namespaceStats, LAMBDA entry : entry.issueScore > 0)

\* the heatmap filtered whatever the checkbox says
PodsPage_filteredHeatmapEntries_Always(heatmapEntries, onlyIssues) ==
    FilterSeq(heatmapEntries, LAMBDA entry : entry.issueScore > 0)

PodsPage_filteredHeatmapEntries(heatmapEntries, onlyIssues) ==
    IF ~onlyIssues THEN heatmapEntries
    ELSE FilterSeq(heatmapEntries, LAMBDA entry : entry.issueScore > 0)

-----------------------------------------------------------------------------
(* events-page (src/unnamed/part_000).                                     *)

\* Number.MAX_SAFE_INTEGER stands as the largest integer of the model: every
\* age the model can form is smaller
MAX_SAFE_INTEGER == 2147483647

\* the windows of 6h and 24h taken for each other
getTimeFilterMs_Swapped(filter) ==
    CASE filter = "1h" -> 3600000
      [] filter = "6h" -> 86400000
      [] filter = "24h" -> 21600000
      [] filter = "7d" -> 604800000
      [] OTHER -> MAX_SAFE_INTEGER

getTimeFilterMs(filter) ==
    CASE filter = "1h" -> 3600000
      [] filter = "6h" -> 21600000
      [] filter = "24h" -> 86400000
      [] filter = "7d" -> 604800000
      [] OTHER -> MAX_SAFE_INTEGER

\* a timestamp is held as the instant (ms) that new Date(timestamp).getTime()
\* yields for it; an absent or empty timestamp is NoNumber
EventsPage_filteredEvents(evs, now, filter, onlyWarnings) ==
    LET maxAge == getTimeFilterMs(filter)
    IN  FilterSeq(evs,
                  LAMBDA event :
                      LET timestamp == IF event.lastTimestamp # NoNumber
                                       THEN event.lastTimestamp ELSE event.firstTimestamp
                      IN  /\ ~(timestamp # NoNumber /\ now - timestamp[1] > maxAge)
                          /\ ~(onlyWarnings /\ ~isWarning(event)))

\* the resources kept as a set: a name is sampled once
EventsPage_buildWarningReasons_DistinctResources(evs) ==
    LET reasons ==
            Fold(LAMBDA m, event :
                    IF ~isWarning(event) THEN m
                    ELSE LET reason == IF event.reason # Undefined THEN event.reason
                                       ELSE "<unknown>"
                             count == countOrOne(event)
                             namespace ==
                                 IF event.involvedObject.namespace \notin {Undefined, ""}
                                 THEN event.involvedObject.namespace ELSE "cluster"
                             resource == event.involvedObject.name
                             entry == IF MapHas(m, reason) THEN MapGet(m, reason)
                                      ELSE [count |-> 0, namespaces |-> <<>>, resources |-> <<>>]
                         IN  MapSet(m, reason,
                                    [count |-> entry.count + count,
                                     namespaces |-> SetAdd(entry.namespaces, namespace),
                                     resources |-> IF Len(entry.resources) < 10
                                                   THEN SetAdd(entry.resources, resource)
                                                   ELSE entry.resources]),
                 <<>>, evs)
    IN  SortBy(MapSeq(reasons,
                      LAMBDA e : [reason |-> e.key, count |-> e.value.count,
                                  namespaces |-> e.value.namespaces,
                                  resources |-> e.value.resources]),
               LAMBDA a, b : b.count - a.count)

\* the entries sorted ascending by count
EventsPage_buildWarningReasons_Ascending(evs) ==
    LET reasons ==
            Fold(LAMBDA m, event :
                    IF ~isWarning(event) THEN m
                    ELSE LET reason == IF event.reason # Undefined THEN event.reason
                                       ELSE "<unknown>"
                             count == countOrOne(event)
                             namespace ==
                                 IF event.involvedObject.namespace \notin {Undefined, ""}
                                 THEN event.involvedObject.namespace ELSE "cluster"
                             resource == event.involvedObject.name
                             entry == IF MapHas(m, reason) THEN MapGet(m, reason)
                                      ELSE [count |-> 0, namespaces |-> <<>>, resources |-> <<>>]
                         IN  MapSet(m, reason,
                                    [count |-> entry.count + count,
                                     namespaces |-> SetAdd(entry.namespaces, namespace),
                                     resources |-> IF Len(entry.resources) < 10
                                                   THEN Append(entry.resources, resource)
                                                   ELSE entry.resources]),
                 <<>>, evs)
    IN  SortBy(MapSeq(reasons,
                      LAMBDA e : [reason |-> e.key, count |-> e.value.count,
                                  namespaces |-> e.value.namespaces,
                                  resources |-> e.value.resources]),
               LAMBDA a, b : a.count - b.count)

EventsPage_buildWarningReasons(evs) ==
    LET reasons ==
            Fold(LAMBDA m, event :
                    IF ~isWarning(event) THEN m
                    ELSE LET reason == IF event.reason # Undefined THEN event.reason
                                       ELSE "<unknown>"
                             count == countOrOne(event)
                             namespace ==
                                 IF event.involvedObject.namespace \notin {Undefined, ""}
                                 THEN event.involvedObject.namespace ELSE "cluster"
                             resource == event.involvedObject.name
                             entry == IF MapHas(m, reason) THEN MapGet(m, reason)
                                      ELSE [count |-> 0, namespaces |-> <<>>, resources |-> <<>>]
                         IN  MapSet(m, reason,
                                    [count |-> entry.count + count,
                                     namespaces |-> SetAdd(entry.namespaces, namespace),
                                     resources |-> IF Len(entry.resources) < 10
                                                   THEN Append(entry.resources, resource)
                                                   ELSE entry.resources]),
                 <<>>, evs)
    IN  SortBy(MapSeq(reasons,
                      LAMBDA e : [reason |-> e.key, count |-> e.value.count,
                                  namespaces |-> e.value.namespaces,
                                  resources |-> e.value.resources]),
               LAMBDA a, b : b.count - a.count)

EventsPage_namespaceEventCounts(filteredEvents) ==
    LET counts ==
            Fold(LAMBDA m, event :
                    LET namespace ==
                            IF event.involvedObject.namespace \notin {Undefined, ""}
                            THEN event.involvedObject.namespace ELSE "cluster"
                        entry == IF MapHas(m, namespace) THEN MapGet(m, namespace)
                                 ELSE [warnings |-> 0, total |-> 0]
                        count == countOrOne(event)
                    IN  MapSet(m, namespace,
                               [warnings |-> entry.warnings
                                                + (IF isWarning(event) THEN count ELSE 0),
                                total |-> entry.total + count]),
                 <<>>, filteredEvents)
    IN  SliceTo(SortBy(MapSeq(counts,
                              LAMBDA e : [namespace |-> e.key, warnings |-> e.value.warnings,
                                          total |-> e.value.total]),
                       LAMBDA a, b : b.warnings - a.warnings),
                10)

EventsPage_eventSummary(filteredEvents) ==
    LET counted ==
            Fold(LAMBDA acc, event :
                    LET count == countOrOne(event)
                    IN  IF isWarning(event) THEN [acc EXCEPT !.warnings = @ + count]
                        ELSE IF event.type = "Normal" THEN [acc EXCEPT !.normals = @ + count]
                        ELSE [acc EXCEPT !.others = @ + count],
                 [warnings |-> 0, normals |-> 0, others |-> 0], filteredEvents)
    IN  [warnings |-> counted.warnings, normals |-> counted.normals, others |-> counted.others,
         total |-> counted.warnings + counted.normals + counted.others]

-----------------------------------------------------------------------------
(* overview-page.tsx: the cluster summary and its health score.            *)

\* the status of the pages' getNodeStatus tested instead of the condition
OverviewPage_isNotReady_ByStatus(node) == getNodeStatus(node) # "Ready"

\* the filter behind nodesNotReady: readyCondition?.status !== "True"
OverviewPage_isNotReady(node) ==
    LET readyCondition == findReadyCondition(node)
    IN  readyCondition = <<>> \/ readyCondition[1].status # "True"

OverviewPage_summary(ns, ps, evs) ==
    LET podCounts ==
            Fold(LAMBDA acc, pod :
                    [runningPods |-> acc.runningPods + (IF pod.phase = "Running" THEN 1 ELSE 0),
                     pendingPods |-> acc.pendingPods + (IF pod.phase = "Pending" THEN 1 ELSE 0),
                     failedPods |-> acc.failedPods + (IF pod.phase = "Failed" THEN 1 ELSE 0),
                     podsWithIssues |-> acc.podsWithIssues + (IF pod.hasIssues THEN 1 ELSE 0),
                     totalRestarts |-> acc.totalRestarts + pod.restarts],
                 [runningPods |-> 0, pendingPods |-> 0, failedPods |-> 0,
                  podsWithIssues |-> 0, totalRestarts |-> 0], ps)
        nodeCounts ==
            Fold(LAMBDA acc, node :
                        [nodesNotReady |-> acc.nodesNotReady
                            + (IF OverviewPage_isNotReady(node) THEN 1 ELSE 0),
                         nodesWithWarnings |-> acc.nodesWithWarnings
                            + (IF Len(getWarningConditions(node)) > 0 THEN 1 ELSE 0)],
                 [nodesNotReady |-> 0, nodesWithWarnings |-> 0], ns)
        eventCounts ==
            Fold(LAMBDA acc, event :
                    LET count == countOrOne(event)
                    IN  IF isWarning(event) THEN [acc EXCEPT !.warningEvents = @ + count]
                        ELSE IF event.type = "Normal" THEN [acc EXCEPT !.normalEvents = @ + count]
                        ELSE acc,
                 [warningEvents |-> 0, normalEvents |-> 0], evs)
        nodeCount == Len(ns)
        podDivisor == Max(Len(ps), 1)
        healthyPods == Len(ps) - podCounts.podsWithIssues - podCounts.failedPods
        eventTerm == IF eventCounts.warningEvents = 0 THEN 20
                     ELSE Max(0, 20 - eventCounts.warningEvents)
        \* the three terms over the common denominator nodeCount * podDivisor
        clusterHealthScore ==
            IF nodeCount > 0
            THEN Round((nodeCount - nodeCounts.nodesNotReady) * 40 * podDivisor
                         + healthyPods * 40 * nodeCount
                         + eventTerm * nodeCount * podDivisor,
                       nodeCount * podDivisor)
            ELSE 100
    IN  [nodes |-> nodeCount, totalPods |-> Len(ps),
         runningPods |-> podCounts.runningPods, pendingPods |-> podCounts.pendingPods,
         failedPods |-> podCounts.failedPods, podsWithIssues |-> podCounts.podsWithIssues,
         totalRestarts |-> podCounts.totalRestarts, totalEvents |-> Len(evs),
         warningEvents |-> eventCounts.warningEvents, normalEvents |-> eventCounts.normalEvents,
         nodesNotReady |-> nodeCounts.nodesNotReady,
         nodesWithWarnings |-> nodeCounts.nodesWithWarnings,
         clusterHealthScore |-> clusterHealthScore]

\* lastTimestamp ? new Date(lastTimestamp).getTime() : 0
eventTime(event) == IF event.lastTimestamp = NoNumber THEN 0 ELSE event.lastTimestamp[1]

OverviewPage_recentWarningEvents(evs) ==
    SliceTo(SortBy(FilterSeq(evs, isWarning),
                   LAMBDA a, b : eventTime(b) - eventTime(a)),
            10)

\* what events holds once recentWarningEvents has run: the sort reorders
\* the array filter returned
OverviewPage_recentWarningEvents_events(evs) == evs

\* getHealthStatus
\* the thresholds taken as strict bounds
getHealthStatus_Strict(score) ==
    IF score > 80 THEN "healthy" ELSE IF score > 50 THEN "warning" ELSE "critical"

getHealthStatus(score) ==
    IF score >= 80 THEN "healthy" ELSE IF score >= 50 THEN "warning" ELSE "critical"

-----------------------------------------------------------------------------
(* The collections the host can hand to the pages.                         *)

SeqsUpTo(S, n) == UNION {[1..k -> S] : k \in 0..n}

Condition(type, status) == [type |-> type, status |-> status]

ConditionLists ==
    { <<>>,
      <<Condition("Ready", "True")>>,
      <<Condition("Ready", "False")>>,
      <<Condition("MemoryPressure", "True"), Condition("Ready", "Unknown")>>,
      <<Condition("Ready", "False"), Condition("Ready", "True")>> }

Taint(key, value, effect) == [key |-> key, value |-> value, effect |-> effect]

TaintLists ==
    { <<>>,
      <<Taint("dedicated", "gpu", "NoSchedule")>>,
      <<Taint("dedicated", "gpu", "NoSchedule"), Taint("intent", Undefined, "NoExecute")>>,
      <<Taint("intent", Undefined, "NoExecute"), Taint("intent", "", "NoExecute")>> }

\* node names are unique in a cluster: the i-th node is node-i
NodeName(i) == "node-" \o ToString(i)

NodeShapes == [unschedulable : BOOLEAN, conditions : ConditionLists, taints : TaintLists]

NodeLists(Shapes, n) ==
    { [i \in 1..Len(shape) |->
          [name |-> NodeName(i), unschedulable |-> shape[i].unschedulable,
           conditions |-> shape[i].conditions, taints |-> shape[i].taints]] :
      shape \in SeqsUpTo(Shapes, n) }

Node(name, unschedulable, conditions, taints) ==
    [name |-> name, unschedulable |-> unschedulable, conditions |-> conditions,
     taints |-> taints]

\* a pod scheduled on the node nodeName
PodOn(ns, phase, hasIssues, restarts, nodeName) ==
    [ns |-> ns, phase |-> phase, hasIssues |-> hasIssues, restarts |-> restarts,
     nodeName |-> nodeName]

\* a pod that is not scheduled
Pod(ns, phase, hasIssues, restarts) == PodOn(ns, phase, hasIssues, restarts, Undefined)

\* phase, hasIssues() and getRestartsCount() of the pods explored; Evicted
\* stands for a phase outside the four the pages name
PodKinds ==
    { <<"Running", FALSE, 0>>, <<"Running", FALSE, 1>>, <<"Running", TRUE, 2>>,
      <<"Pending", TRUE, 0>>, <<"Failed", TRUE, 0>>, <<"Succeeded", FALSE, 0>>,
      <<"Evicted", TRUE, 0>> }

\* pods of namespace a of every kind, and pods without a namespace
PodValues ==
    { Pod("a", k[1], k[2], k[3]) : k \in PodKinds }
    \cup { Pod(Undefined, "Running", FALSE, 0), Pod(Undefined, "Running", TRUE, 2),
           Pod(Undefined, "Evicted", TRUE, 0) }

Event(type, count, reason, ns, involvedNamespace) ==
    [type |-> type, count |-> count, reason |-> reason, ns |-> ns,
     involvedObject |-> [name |-> "web", namespace |-> involvedNamespace],
     lastTimestamp |-> NoNumber, firstTimestamp |-> NoNumber]

WarningEvents ==
    { Event("Warning", c, r, n[1], n[2]) :
        c \in {NoNumber, Some(2)},
        r \in {Undefined, "BackOff", "FailedMount"},
        n \in {<<Undefined, Undefined>>, <<"a", "a">>} }

\* an event about a node lies in the namespace default and its involved
\* object has no namespace
EventValues ==
    WarningEvents \cup { Event("Normal", NoNumber, "Pulled", "a", "a"),
                         Event("Other", Some(2), "BackOff", "a", "a"),
                         Event("Warning", NoNumber, "NodeNotReady", "default", Undefined) }

\* the nodes, pods and events the health score is explored with: what it
\* reads of them is the Ready condition, the phase and hasIssues(), and the
\* type and count
HealthNodeShapes ==
    [unschedulable : {FALSE},
     conditions : {<<>>, <<Condition("Ready", "True")>>, <<Condition("Ready", "False")>>},
     taints : {<<>>}]
    \cup {[unschedulable |-> TRUE, conditions |-> <<Condition("Ready", "True")>>,
           taints |-> <<>>]}

HealthPodValues ==
    { Pod("a", "Running", FALSE, 0), Pod("a", "Running", TRUE, 2),
      Pod("a", "Failed", TRUE, 0), Pod("a", "Failed", FALSE, 0) }

HealthEventValues ==
    { Event("Warning", Some(20), "BackOff", "a", "a"),
      Event("Warning", NoNumber, "BackOff", "a", "a"),
      Event("Normal", NoNumber, "Pulled", "a", "a") }

\* the event collections the pod aggregations are explored with
PodEventLists ==
    { <<>>,
      <<Event("Warning", Some(2), "BackOff", "a", "a")>>,
      <<Event("Warning", NoNumber, "BackOff", Undefined, Undefined),
        Event("Warning", NoNumber, "FailedMount", "b", "b"),
        Event("Normal", Some(2), "Pulled", "a", "a")>> }

\* pod collections of many namespaces: the i-th pod is the only pod of its
\* namespace and is either healthy or has issues and i % 3 restarts; in the
\* collections of more than four pods the first four have issues
TopNamespaceName(i) == "ns-" \o ToString(i)

TopPodLists(n) ==
    UNION { { [i \in 1..k |->
                 IF i \in issues THEN Pod(TopNamespaceName(i), "Running", TRUE, i % 3)
                 ELSE Pod(TopNamespaceName(i), "Running", FALSE, 0)] :
              issues \in {I \in SUBSET (1..k) : k > 4 => (1..4) \subseteq I} } :
            k \in 0..n }

\* an event with a lastTimestamp
EventAt(type, reason, ns, time) ==
    [Event(type, NoNumber, reason, ns, ns) EXCEPT !.lastTimestamp = Some(time)]

\* an event about the object name of namespace a
EventAbout(type, reason, name) ==
    [type |-> type, count |-> NoNumber, reason |-> reason, ns |-> "a",
     involvedObject |-> [name |-> name, namespace |-> "a"],
     lastTimestamp |-> NoNumber, firstTimestamp |-> NoNumber]

\* the object the i-th event of a sample collection is about: four objects
\* in turn
SampleName(i) == "pod-" \o ToString(i % 4)

\* event collections long enough for a reason to have more than ten warning
\* events: the first seven are BackOff warnings, each later event is a
\* BackOff warning, a FailedMount warning or a normal event
SampleEventLists(n) ==
    UNION { { [i \in 1..k |->
                 IF i <= 7 THEN EventAbout("Warning", "BackOff", SampleName(i))
                 ELSE EventAbout(kind[i][1], kind[i][2], SampleName(i))] :
              kind \in [8..k -> {<<"Warning", "BackOff">>, <<"Warning", "FailedMount">>,
                                 <<"Normal", "BackOff">>}] } :
            k \in 0..n }

\* an event with the given lastTimestamp and firstTimestamp
EventTimed(type, lastTimestamp, firstTimestamp) ==
    [Event(type, NoNumber, "BackOff", "a", "a")
        EXCEPT !.lastTimestamp = lastTimestamp, !.firstTimestamp = firstTimestamp]

\* events on both sides of every window seen from the instant 1700000000:
\* without timestamps, of an age of exactly one hour, just older than each
\* window, dated by firstTimestamp only, and later than now
WindowEventValues ==
    { EventTimed("Warning", NoNumber, NoNumber),
      EventTimed("Normal", NoNumber, NoNumber),
      EventTimed("Warning", Some(1700000000 - 3600000), NoNumber),
      EventTimed("Warning", Some(1700000000 - 3600001), Some(1700000000 - 604800001)),
      EventTimed("Normal", Some(1700000000 - 21600001), NoNumber),
      EventTimed("Warning", NoNumber, Some(1700000000 - 86400001)),
      EventTimed("Other", Some(1700000000 - 604800001), NoNumber),
      EventTimed("Other", Some(1700000000 + 1000), NoNumber) }

\* the values of the time range select
TimeFilters == {"1h", "6h", "24h", "7d", "all"}

\* pod collections whose namespaces are partly without issues: a is healthy
\* or not, b and the pods without namespace have issues or not
CellPodLists ==
    { <<>>,
      <<Pod("a", "Running", FALSE, 0)>>,
      <<Pod("a", "Running", FALSE, 0), Pod("b", "Pending", TRUE, 0)>>,
      <<Pod("a", "Running", TRUE, 1), Pod("b", "Running", FALSE, 0),
        Pod(Undefined, "Running", FALSE, 0)>> }

\* the namespaces the heatmap and the table of those collections can name
CellNamespaces == {"a", "b", "<unknown>"}

\* collections that give every page two rows to expand: two nodes that are
\* not Ready, pods with issues in two namespaces, warnings of two reasons
RowNodeLists ==
    { <<Node(NodeName(1), FALSE, <<Condition("Ready", "False")>>, <<>>),
        Node(NodeName(2), TRUE, <<Condition("Ready", "True")>>, <<>>)>> }

RowPodLists ==
    { <<Pod("a", "Pending", TRUE, 0), Pod("b", "Failed", TRUE, 0)>> }

RowEventLists ==
    { <<Event("Warning", NoNumber, "BackOff", "a", "a"),
        Event("Warning", NoNumber, "FailedMount", "b", "b")>> }

\* the keys of the rows of those collections
RowKeys == {NodeName(1), NodeName(2), "a", "b", "BackOff", "FailedMount"}

\* pods of two namespaces and of none, events of two reasons and of none,
\* with and without count: what the copies of buildNamespacePodStats and
\* buildWarningReasons are compared on
CopyPodValues ==
    { Pod("a", "Running", FALSE, 0), Pod("a", "Failed", TRUE, 0),
      Pod("b", "Running", TRUE, 2), Pod(Undefined, "Pending", TRUE, 0) }

CopyEventValues ==
    { Event("Warning", NoNumber, "BackOff", "a", "a"),
      Event("Warning", Some(2), "FailedMount", "b", "b"),
      Event("Warning", NoNumber, Undefined, Undefined, Undefined),
      Event("Normal", Some(2), "BackOff", "a", "a"),
      Event("Other", NoNumber, "FailedMount", "b", "b") }

\* the contents the stores move between: node collections in and out of name
\* order, pod collections whose namespaces rank differently by issues and by
\* issueScore, event collections in and out of time order
StoreNodeLists ==
    { <<>>,
      <<Node(NodeName(1), FALSE, <<Condition("Ready", "True")>>, <<>>)>>,
      <<Node(NodeName(2), FALSE, <<Condition("Ready", "True")>>,
             <<Taint("dedicated", "gpu", "NoSchedule")>>),
        Node(NodeName(1), FALSE, <<Condition("Ready", "False")>>, <<>>)>>,
      <<Node(NodeName(1), TRUE, <<>>, <<>>),
        Node(NodeName(2), FALSE, <<Condition("Ready", "False")>>,
             <<Taint("dedicated", "gpu", "NoSchedule")>>)>> }

StorePodLists ==
    { <<>>,
      <<Pod("a", "Running", FALSE, 0)>>,
      <<Pod("a", "Pending", TRUE, 0), PodOn("a", "Failed", TRUE, 0, NodeName(1)),
        PodOn(Undefined, "Running", TRUE, 2, NodeName(1))>> }

StoreEventLists ==
    { <<>>,
      <<Event("Warning", Some(2), "BackOff", "a", "a")>>,
      <<EventAt("Warning", "BackOff", "b", 1699999100),
        EventAt("Normal", "Pulled", "b", 1699999150),
        EventAt("Warning", "FailedMount", "b", 1699999200)>> }

\* the contents the stores are watched moving between
WatchedNodeLists == {ns \in StoreNodeLists : ns # <<>> /\ ns[1].name = NodeName(1)}

WatchedPodLists == {ps \in StorePodLists : Len(ps) # 1}

WatchedEventLists == {evs \in StoreEventLists : Len(evs) # 1}

\* the columns whose header is clicked
SortColumns == {"name", "status", "pods"}

NotRendered == [rendered |-> FALSE]

Unrendered ==
    /\ overview = NotRendered
    /\ sreStats = NotRendered
    /\ nodesPage = NotRendered
    /\ podsPage = NotRendered
    /\ eventsPage = NotRendered
    /\ showOnlyWarnings = TRUE
    /\ timeFilter = "1h"
    /\ sortColumn = "name"
    /\ sortDirection = "asc"
    /\ dirty = Pages
    /\ changed = [p \in Pages |-> {}]
    /\ shown = [p \in Pages |-> "nothing"]
    /\ expandedNodes = {}
    /\ expandedReasons = {}
    /\ expandedNamespaces = {}
    /\ showOnlyIssues = TRUE
    /\ mounted = {}
    /\ disposers = [p \in Pages |-> <<>>]

\* the instants Date.now() can return
Clock == {1700000000}

-----------------------------------------------------------------------------
(* The renders: each computes the page's derived values from the           *)
(* collections the stores hold. A useMemo value is computed anew on the    *)
(* page's first render and whenever one of its dependencies is not the     *)
(* value of the previous render (Object.is); otherwise the value of the    *)
(* previous render is kept.                                                *)

\* the render of page p is done: nothing of it is pending
Rendered(p) ==
    /\ dirty' = dirty \ {p}
    /\ changed' = [changed EXCEPT ![p] = {}]
    /\ shown' = [shown EXCEPT ![p] = IF markupRaises THEN "ErrorPage" ELSE "page"]

\* store is a dependency of page p that is not the array of p's last render
DepChanged(p, rendered, store) == ~rendered \/ store \in changed[p]

OverviewPage ==
    /\ "overview" \in dirty
    /\ LET nodesChanged == DepChanged("overview", overview.rendered, "nodes")
           podsChanged == DepChanged("overview", overview.rendered, "pods")
           eventsChanged == DepChanged("overview", overview.rendered, "events")
           summary == IF nodesChanged \/ podsChanged \/ eventsChanged
                      THEN OverviewPage_summary(nodes, pods, events)
                      ELSE overview.summary
       IN  /\ overview' =
                 [rendered |-> TRUE,
                  summary |-> summary,
                  \* the status handed to the health card of the markup
                  healthStatus |-> getHealthStatus(summary.clusterHealthScore),
                  recentWarningEvents |->
                      IF eventsChanged THEN OverviewPage_recentWarningEvents(events)
                      ELSE overview.recentWarningEvents]
           /\ events' = IF eventsChanged THEN OverviewPage_recentWarningEvents_events(events)
                        ELSE events
    /\ Rendered("overview")
    /\ UNCHANGED <<nodes, pods, sreStats, nodesPage, podsPage, eventsPage,
                   showOnlyWarnings, timeFilter, sortColumn, sortDirection, markupRaises,
                   expandedNodes, expandedReasons, expandedNamespaces, showOnlyIssues,
                   mounted, disposers>>

SreStatsPage ==
    /\ "sreStats" \in dirty
    /\ LET nodesChanged == DepChanged("sreStats", sreStats.rendered, "nodes")
           podsChanged == DepChanged("sreStats", sreStats.rendered, "pods")
           eventsChanged == DepChanged("sreStats", sreStats.rendered, "events")
           warningEventsByNamespace ==
               IF eventsChanged THEN buildWarningEventsByNamespace(events)
               ELSE sreStats.warningEventsByNamespace
           \* warningEventsByNamespace is a new Map exactly when it was computed anew
           statsChanged == podsChanged \/ eventsChanged
           namespaceStats ==
               IF statsChanged THEN buildNamespacePodStats(pods, warningEventsByNamespace)
               ELSE sreStats.namespaceStats
           topNamespaces ==
               IF statsChanged THEN SreStatsPage_topNamespaces(namespaceStats)
               ELSE sreStats.topNamespaces
           \* namespaceStats once the topNamespaces memo has run
           namespaceStatsAfter ==
               IF statsChanged THEN SreStatsPage_topNamespaces_namespaceStats(namespaceStats)
               ELSE namespaceStats
       IN  sreStats' = [rendered |-> TRUE,
                        nodeStatusCounts |->
                            IF nodesChanged THEN SreStatsPage_nodeStatusCounts(nodes)
                            ELSE sreStats.nodeStatusCounts,
                        taintSummary |->
                            IF nodesChanged THEN buildTaintSummary(nodes)
                            ELSE sreStats.taintSummary,
                        warningEventsByNamespace |-> warningEventsByNamespace,
                        namespaceStats |-> namespaceStatsAfter,
                        warningReasons |->
                            IF eventsChanged THEN buildWarningReasons(events)
                            ELSE sreStats.warningReasons,
                        topNamespaces |-> topNamespaces,
                        heatmapEntries |->
                            IF statsChanged THEN SreStatsPage_heatmapEntries(namespaceStatsAfter)
                            ELSE sreStats.heatmapEntries,
                        eventSummary |->
                            IF eventsChanged THEN SreStatsPage_eventSummary(events)
                            ELSE sreStats.eventSummary]
    /\ Rendered("sreStats")
    /\ UNCHANGED <<nodes, pods, events, overview, nodesPage, podsPage, eventsPage,
                   showOnlyWarnings, timeFilter, sortColumn, sortDirection, markupRaises,
                   expandedNodes, expandedReasons, expandedNamespaces, showOnlyIssues,
                   mounted, disposers>>

\* The memos run before the try block that wraps the markup: an exception
\* of the sort comparator leaves the component, nothing of the render is kept
\* and React unmounts the page.
NodesPage ==
    /\ "nodesPage" \in dirty
    /\ shown.nodesPage # "raised"
    /\ LET nodesChanged == DepChanged("nodesPage", nodesPage.rendered, "nodes")
           sortChanged == \/ nodesChanged
                          \/ nodesPage.sortColumn # sortColumn
                          \/ nodesPage.sortDirection # sortDirection
           sorted == NodesPage_sortedNodes(nodes, sortColumn, sortDirection)
       IN  IF sortChanged /\ sorted.raised
           THEN /\ shown' = [shown EXCEPT !.nodesPage = "raised"]
                /\ dirty' = dirty \ {"nodesPage"}
                /\ UNCHANGED <<nodes, nodesPage, changed>>
           ELSE /\ nodesPage' =
                      [rendered |-> TRUE,
                       nodeStatusCounts |->
                           IF nodesChanged THEN NodesPage_nodeStatusCounts(nodes)
                           ELSE nodesPage.nodeStatusCounts,
                       taintSummary |->
                           IF nodesChanged THEN NodesPage_buildTaintSummary(nodes)
                           ELSE nodesPage.taintSummary,
                       sortedNodes |-> IF sortChanged THEN sorted.value
                                       ELSE nodesPage.sortedNodes,
                       sortColumn |-> sortColumn,
                       sortDirection |-> sortDirection,
                       expandedNodes |-> expandedNodes]
                /\ nodes' = IF sortChanged
                            THEN NodesPage_sortedNodes_nodes(nodes, sortColumn, sortDirection)
                            ELSE nodes
                /\ Rendered("nodesPage")
    /\ UNCHANGED <<pods, events, overview, sreStats, podsPage, eventsPage,
                   showOnlyWarnings, timeFilter, sortColumn, sortDirection, markupRaises,
                   expandedNodes, expandedReasons, expandedNamespaces, showOnlyIssues,
                   mounted, disposers>>

PodsPage ==
    /\ "podsPage" \in dirty
    /\ LET podsChanged == DepChanged("podsPage", podsPage.rendered, "pods")
           eventsChanged == DepChanged("podsPage", podsPage.rendered, "events")
           warningEventsByNamespace ==
               IF eventsChanged THEN PodsPage_buildWarningEventsByNamespace(events)
               ELSE podsPage.warningEventsByNamespace
           statsChanged == podsChanged \/ eventsChanged
           namespaceStats ==
               IF statsChanged
               THEN PodsPage_buildNamespacePodStats(pods, warningEventsByNamespace)
               ELSE podsPage.namespaceStats
           namespaceStatsAfter ==
               IF statsChanged THEN PodsPage_topNamespaces_namespaceStats(namespaceStats)
               ELSE namespaceStats
           heatmapEntries ==
               IF statsChanged THEN PodsPage_heatmapEntries(namespaceStatsAfter)
               ELSE podsPage.heatmapEntries
           \* namespaceStats and heatmapEntries are new arrays exactly when computed anew
           filterChanged == statsChanged \/ podsPage.showOnlyIssues # showOnlyIssues
       IN  podsPage' = [rendered |-> TRUE,
                        warningEventsByNamespace |-> warningEventsByNamespace,
                        namespaceStats |-> namespaceStatsAfter,
                        filteredNamespaceStats |->
                            IF filterChanged
                            THEN PodsPage_filteredNamespaceStats(namespaceStats, showOnlyIssues)
                            ELSE podsPage.filteredNamespaceStats,
                        topNamespaces |->
                            IF statsChanged THEN PodsPage_topNamespaces(namespaceStats)
                            ELSE podsPage.topNamespaces,
                        heatmapEntries |-> heatmapEntries,
                        filteredHeatmapEntries |->
                            IF filterChanged
                            THEN PodsPage_filteredHeatmapEntries(heatmapEntries, showOnlyIssues)
                            ELSE podsPage.filteredHeatmapEntries,
                        showOnlyIssues |-> showOnlyIssues]
    /\ Rendered("podsPage")
    /\ UNCHANGED <<nodes, pods, events, overview, sreStats, nodesPage, eventsPage,
                   showOnlyWarnings, timeFilter, sortColumn, sortDirection, markupRaises,
                   expandedNodes, expandedReasons, expandedNamespaces, showOnlyIssues,
                   mounted, disposers>>

\* Date.now() is read inside the filteredEvents memo, when it is computed
EventsPage ==
    /\ "eventsPage" \in dirty
    /\ \E now \in Clock :
          LET filterChanged ==
                  \/ DepChanged("eventsPage", eventsPage.rendered, "events")
                  \/ eventsPage.timeFilter # timeFilter
                  \/ eventsPage.showOnlyWarnings # showOnlyWarnings
              filteredEvents ==
                  IF filterChanged
                  THEN EventsPage_filteredEvents(events, now, timeFilter, showOnlyWarnings)
                  ELSE eventsPage.filteredEvents
          IN  eventsPage' = [rendered |-> TRUE,
                             filteredEvents |-> filteredEvents,
                             eventSummary |->
                                 IF filterChanged THEN EventsPage_eventSummary(filteredEvents)
                                 ELSE eventsPage.eventSummary,
                             warningReasons |->
                                 IF filterChanged
                                 THEN EventsPage_buildWarningReasons(filteredEvents)
                                 ELSE eventsPage.warningReasons,
                             namespaceEventCounts |->
                                 IF filterChanged
                                 THEN EventsPage_namespaceEventCounts(filteredEvents)
                                 ELSE eventsPage.namespaceEventCounts,
                             timeFilter |-> timeFilter,
                             showOnlyWarnings |-> showOnlyWarnings,
                             expandedReasons |-> expandedReasons]
    /\ Rendered("eventsPage")
    /\ UNCHANGED <<nodes, pods, events, overview, sreStats, nodesPage, podsPage,
                   showOnlyWarnings, timeFilter, sortColumn, sortDirection, markupRaises,
                   expandedNodes, expandedReasons, expandedNamespaces, showOnlyIssues,
                   mounted, disposers>>

\* the direction left as it is when another column is selected
NodesPage_handleSort_KeepDirection(column) ==
    /\ nodesPage.rendered
    /\ shown.nodesPage = "page"
    /\ "nodesPage" \notin dirty
    /\ IF nodesPage.sortColumn = column
       THEN /\ sortDirection' = (IF nodesPage.sortDirection = "asc" THEN "desc" ELSE "asc")
            /\ UNCHANGED sortColumn
       ELSE /\ sortColumn' = column
            /\ UNCHANGED sortDirection
    /\ dirty' = dirty \cup {"nodesPage"}
    /\ UNCHANGED <<nodes, pods, events, overview, sreStats, nodesPage, podsPage, eventsPage,
                   showOnlyWarnings, timeFilter, changed, shown, markupRaises,
                   expandedNodes, expandedReasons, expandedNamespaces, showOnlyIssues,
                   mounted, disposers>>

\* a click on a column header of the nodes table: handleSort reads the
\* sortColumn and sortDirection of the render that drew the header
NodesPage_handleSort(column) ==
    /\ nodesPage.rendered
    /\ shown.nodesPage = "page"
    /\ "nodesPage" \notin dirty
    /\ IF nodesPage.sortColumn = column
       THEN /\ sortDirection' = (IF nodesPage.sortDirection = "asc" THEN "desc" ELSE "asc")
            /\ UNCHANGED sortColumn
       ELSE /\ sortColumn' = column
            /\ sortDirection' = "asc"
    /\ dirty' = dirty \cup {"nodesPage"}
    /\ UNCHANGED <<nodes, pods, events, overview, sreStats, nodesPage, podsPage, eventsPage,
                   showOnlyWarnings, timeFilter, changed, shown, markupRaises,
                   expandedNodes, expandedReasons, expandedNamespaces, showOnlyIssues,
                   mounted, disposers>>

\* the time range select changed to another option
EventsPage_setTimeFilter(filter) ==
    /\ eventsPage.rendered
    /\ shown.eventsPage = "page"
    /\ "eventsPage" \notin dirty
    /\ filter # timeFilter
    /\ timeFilter' = filter
    /\ dirty' = dirty \cup {"eventsPage"}
    /\ UNCHANGED <<nodes, pods, events, overview, sreStats, nodesPage, podsPage, eventsPage,
                   showOnlyWarnings, sortColumn, sortDirection, changed, shown, markupRaises,
                   expandedNodes, expandedReasons, expandedNamespaces, showOnlyIssues,
                   mounted, disposers>>

\* the checkbox "Show only warnings" ticked or unticked
EventsPage_setShowOnlyWarnings(checked) ==
    /\ eventsPage.rendered
    /\ shown.eventsPage = "page"
    /\ "eventsPage" \notin dirty
    /\ checked # showOnlyWarnings
    /\ showOnlyWarnings' = checked
    /\ dirty' = dirty \cup {"eventsPage"}
    /\ UNCHANGED <<nodes, pods, events, overview, sreStats, nodesPage, podsPage, eventsPage,
                   timeFilter, sortColumn, sortDirection, changed, shown, markupRaises,
                   expandedNodes, expandedReasons, expandedNamespaces, showOnlyIssues,
                   mounted, disposers>>

\* the rows of the nodes table that "show only problems" leaves in both of
\* its positions: the nodes that are not Ready
NodesPage_displayedNodes(sortedNodes) ==
    FilterSeq(sortedNodes, LAMBDA node : NodesPage_getNodeStatus(node) # "Ready")

\* a click on a row of the nodes table: the new set is built from the
\* expandedNodes of the render that drew the row and replaces the state
NodesPage_toggleNodeExpanded(nodeName) ==
    /\ nodesPage.rendered
    /\ shown.nodesPage = "page"
    /\ \E i \in 1..Len(NodesPage_displayedNodes(nodesPage.sortedNodes)) :
          NodesPage_displayedNodes(nodesPage.sortedNodes)[i].name = nodeName
    /\ expandedNodes' =
           IF nodeName \in nodesPage.expandedNodes
           THEN nodesPage.expandedNodes \ {nodeName}
           ELSE nodesPage.expandedNodes \cup {nodeName}
    /\ dirty' = dirty \cup {"nodesPage"}
    /\ UNCHANGED <<nodes, pods, events, overview, sreStats, nodesPage, podsPage, eventsPage,
                   showOnlyWarnings, timeFilter, sortColumn, sortDirection, changed, shown,
                   markupRaises, expandedReasons, expandedNamespaces, showOnlyIssues,
                   mounted, disposers>>

\* a click on a row of the warning reasons: the new set is built from the
\* expandedReasons of the render that drew the row and replaces the state
EventsPage_toggleReasonExpanded(reason) ==
    /\ eventsPage.rendered
    /\ shown.eventsPage = "page"
    /\ \E i \in 1..Len(eventsPage.warningReasons) :
          eventsPage.warningReasons[i].reason = reason
    /\ expandedReasons' =
           IF reason \in eventsPage.expandedReasons
           THEN eventsPage.expandedReasons \ {reason}
           ELSE eventsPage.expandedReasons \cup {reason}
    /\ dirty' = dirty \cup {"eventsPage"}
    /\ UNCHANGED <<nodes, pods, events, overview, sreStats, nodesPage, podsPage, eventsPage,
                   showOnlyWarnings, timeFilter, sortColumn, sortDirection, changed, shown,
                   markupRaises, expandedNodes, expandedNamespaces, showOnlyIssues,
                   mounted, disposers>>

\* the namespaces of the entries of a list of statistics or heatmap entries
NamespacesOf(entries) == {entries[k].namespace : k \in 1..Len(entries)}

\* the checkbox "Show only issues" ticked or unticked
PodsPage_setShowOnlyIssues(checked) ==
    /\ podsPage.rendered
    /\ shown.podsPage = "page"
    /\ "podsPage" \notin dirty
    /\ checked # showOnlyIssues
    /\ showOnlyIssues' = checked
    /\ dirty' = dirty \cup {"podsPage"}
    /\ UNCHANGED <<nodes, pods, events, overview, sreStats, nodesPage, podsPage, eventsPage,
                   showOnlyWarnings, timeFilter, sortColumn, sortDirection, changed, shown,
                   markupRaises, expandedNodes, expandedReasons, expandedNamespaces,
                   mounted, disposers>>

\* a click on a cell of the heatmap: the row of the namespace is looked up
\* by its id among the rows drawn and, when found, the namespace is added
\* by an updater that receives the present set
PodsPage_scrollToNamespace(namespace) ==
    /\ podsPage.rendered
    /\ shown.podsPage = "page"
    /\ namespace \in NamespacesOf(podsPage.filteredHeatmapEntries)
    /\ IF namespace \in NamespacesOf(podsPage.filteredNamespaceStats)
       THEN /\ expandedNamespaces' = expandedNamespaces \cup {namespace}
            /\ dirty' = dirty \cup {"podsPage"}
       ELSE UNCHANGED <<expandedNamespaces, dirty>>
    /\ UNCHANGED <<nodes, pods, events, overview, sreStats, nodesPage, podsPage, eventsPage,
                   showOnlyWarnings, timeFilter, sortColumn, sortDirection, changed, shown,
                   markupRaises, expandedNodes, expandedReasons, showOnlyIssues,
                   mounted, disposers>>

\* a click on a row of the namespace table: the updater receives the present
\* set and returns it with the membership of the namespace flipped
PodsPage_toggleNamespace(namespace) ==
    /\ podsPage.rendered
    /\ shown.podsPage = "page"
    /\ namespace \in NamespacesOf(podsPage.filteredNamespaceStats)
    /\ expandedNamespaces' =
           IF namespace \in expandedNamespaces
           THEN expandedNamespaces \ {namespace}
           ELSE expandedNamespaces \cup {namespace}
    /\ dirty' = dirty \cup {"podsPage"}
    /\ UNCHANGED <<nodes, pods, events, overview, sreStats, nodesPage, podsPage, eventsPage,
                   showOnlyWarnings, timeFilter, sortColumn, sortDirection, changed, shown,
                   markupRaises, expandedNodes, expandedReasons, showOnlyIssues,
                   mounted, disposers>>

\* the stores the mount effect of a page subscribes to, in the order of its
\* disposers array
SubscribedStores(p) ==
    CASE p = "overview" -> <<"namespaces", "nodes", "pods", "events">>
      [] p = "sreStats" -> <<"namespaces", "nodes", "pods", "events">>
      [] p = "nodesPage" -> <<"nodes", "pods">>
      [] p = "podsPage" -> <<"namespaces", "pods", "events">>
      [] p = "eventsPage" -> <<"namespaces", "events">>

\* whether the component of page p has rendered since it was created
IsRendered(p) ==
    CASE p = "overview" -> overview.rendered
      [] p = "sreStats" -> sreStats.rendered
      [] p = "nodesPage" -> nodesPage.rendered
      [] p = "podsPage" -> podsPage.rendered
      [] p = "eventsPage" -> eventsPage.rendered

\* the effect with the empty dependency list, run once after the first
\* render of the component: every store.subscribe() returns a disposer
Mount(p) ==
    /\ IsRendered(p)
    /\ p \notin mounted
    /\ mounted' = mounted \cup {p}
    /\ disposers' = [disposers EXCEPT ![p] =
                        [i \in 1..Len(SubscribedStores(p)) |->
                            [store |-> SubscribedStores(p)[i], calls |-> 0]]]
    /\ UNCHANGED <<nodes, pods, events, overview, sreStats, nodesPage, podsPage, eventsPage,
                   showOnlyWarnings, timeFilter, sortColumn, sortDirection, dirty, changed,
                   shown, markupRaises, expandedNodes, expandedReasons, expandedNamespaces,
                   showOnlyIssues>>

\* the loop of the cleanup left after its first disposer
DisposeAll_FirstOnly(ds) ==
    [i \in 1..Len(ds) |-> IF i = 1 THEN [ds[i] EXCEPT !.calls = @ + 1] ELSE ds[i]]

\* the cleanup of the mount effect: for (const dispose of disposers) dispose()
DisposeAll(ds) == [i \in 1..Len(ds) |-> [ds[i] EXCEPT !.calls = @ + 1]]

\* the host leaves the page: React runs the cleanup of the mount effect and
\* drops the component with its state; the page can be opened again
Unmount(p) ==
    /\ p \in mounted
    /\ mounted' = mounted \ {p}
    /\ disposers' = [disposers EXCEPT ![p] = DisposeAll(disposers[p])]
    /\ overview' = IF p = "overview" THEN NotRendered ELSE overview
    /\ sreStats' = IF p = "sreStats" THEN NotRendered ELSE sreStats
    /\ nodesPage' = IF p = "nodesPage" THEN NotRendered ELSE nodesPage
    /\ podsPage' = IF p = "podsPage" THEN NotRendered ELSE podsPage
    /\ eventsPage' = IF p = "eventsPage" THEN NotRendered ELSE eventsPage
    /\ sortColumn' = IF p = "nodesPage" THEN "name" ELSE sortColumn
    /\ sortDirection' = IF p = "nodesPage" THEN "asc" ELSE sortDirection
    /\ expandedNodes' = IF p = "nodesPage" THEN {} ELSE expandedNodes
    /\ showOnlyWarnings' = IF p = "eventsPage" THEN TRUE ELSE showOnlyWarnings
    /\ timeFilter' = IF p = "eventsPage" THEN "1h" ELSE timeFilter
    /\ expandedReasons' = IF p = "eventsPage" THEN {} ELSE expandedReasons
    /\ expandedNamespaces' = IF p = "podsPage" THEN {} ELSE expandedNamespaces
    /\ showOnlyIssues' = IF p = "podsPage" THEN TRUE ELSE showOnlyIssues
    /\ dirty' = dirty \cup {p}
    /\ changed' = [changed EXCEPT ![p] = {}]
    /\ shown' = [shown EXCEPT ![p] = "nothing"]
    /\ UNCHANGED <<nodes, pods, events, markupRaises>>

-----------------------------------------------------------------------------
(* The host: a store's watch changes the content of its items array,       *)
(* either in the array the pages already hold or in a new array, and every *)
(* observer page that reads the store renders again.                       *)

\* the pages that read a store
Observers(store) ==
    CASE store = "nodes" -> {"overview", "sreStats", "nodesPage"}
      [] store = "pods" -> {"overview", "sreStats", "nodesPage", "podsPage"}
      [] store = "events" -> {"overview", "sreStats", "podsPage", "eventsPage"}

\* the pages that name a store's items among the dependencies of a memo
Dependents(store) ==
    CASE store = "nodes" -> {"overview", "sreStats", "nodesPage"}
      [] store = "pods" -> {"overview", "sreStats", "podsPage"}
      [] store = "events" -> {"overview", "sreStats", "podsPage", "eventsPage"}

\* the pages that have rendered and whose next render is scheduled
RenderPending ==
    {p \in dirty : CASE p = "overview" -> overview.rendered
                     [] p = "sreStats" -> sreStats.rendered
                     [] p = "nodesPage" -> nodesPage.rendered
                     [] p = "podsPage" -> podsPage.rendered
                     [] p = "eventsPage" -> eventsPage.rendered}

\* a change reaches the pages once the renders the previous one scheduled
\* are done
StoreChanged(store, inPlace) ==
    /\ RenderPending = {}
    /\ dirty' = dirty \cup Observers(store)
    /\ changed' = IF inPlace THEN changed
                  ELSE [p \in Pages |-> IF p \in Dependents(store)
                                        THEN changed[p] \cup {store} ELSE changed[p]]

nodesStore_update(items, inPlace) ==
    /\ items # nodes
    /\ nodes' = items
    /\ StoreChanged("nodes", inPlace)
    /\ UNCHANGED <<pods, events, overview, sreStats, nodesPage, podsPage, eventsPage,
                   showOnlyWarnings, timeFilter, sortColumn, sortDirection, shown,
                   markupRaises,
                   expandedNodes, expandedReasons, expandedNamespaces, showOnlyIssues,
                   mounted, disposers>>

podsStore_update(items, inPlace) ==
    /\ items # pods
    /\ pods' = items
    /\ StoreChanged("pods", inPlace)
    /\ UNCHANGED <<nodes, events, overview, sreStats, nodesPage, podsPage, eventsPage,
                   showOnlyWarnings, timeFilter, sortColumn, sortDirection, shown,
                   markupRaises,
                   expandedNodes, expandedReasons, expandedNamespaces, showOnlyIssues,
                   mounted, disposers>>

eventStore_update(items, inPlace) ==
    /\ items # events
    /\ events' = items
    /\ StoreChanged("events", inPlace)
    /\ UNCHANGED <<nodes, pods, overview, sreStats, nodesPage, podsPage, eventsPage,
                   showOnlyWarnings, timeFilter, sortColumn, sortDirection, shown,
                   markupRaises,
                   expandedNodes, expandedReasons, expandedNamespaces, showOnlyIssues,
                   mounted, disposers>>

-----------------------------------------------------------------------------
(* Specifications: one per kind of collection the pages aggregate.        *)

\* node collections, seen by the SRE-stats page and the nodes page
InitNodes ==
    /\ nodes \in NodeLists(NodeShapes, MaxNodes)
    /\ pods = <<>>
    /\ events = <<>>
    /\ Unrendered
    /\ markupRaises = FALSE

NextNodes == SreStatsPage \/ NodesPage

SpecNodes == InitNodes /\ [][NextNodes]_vars

\* pod collections with the warning events joined to them, seen by the
\* SRE-stats page and the pods page
InitPods ==
    /\ nodes = <<>>
    /\ pods \in SeqsUpTo(PodValues, MaxPods)
    /\ events \in PodEventLists
    /\ Unrendered
    /\ markupRaises = FALSE

NextPods == SreStatsPage \/ PodsPage

SpecPods == InitPods /\ [][NextPods]_vars

\* event collections, seen by the SRE-stats page, the pods page and the
\* events page
InitEvents ==
    /\ nodes = <<>>
    /\ pods = <<>>
    /\ events \in SeqsUpTo(EventValues, MaxEvents)
    /\ Unrendered
    /\ markupRaises = FALSE

NextEvents == SreStatsPage \/ PodsPage \/ EventsPage

SpecEvents == InitEvents /\ [][NextEvents]_vars

\* pod collections of more namespaces than the top-namespaces views keep,
\* seen by the SRE-stats page and the pods page
InitTop ==
    /\ nodes = <<>>
    /\ pods \in TopPodLists(MaxTopNamespaces)
    /\ events = <<>>
    /\ Unrendered
    /\ markupRaises = FALSE

NextTop == SreStatsPage \/ PodsPage

SpecTop == InitTop /\ [][NextTop]_vars

\* event collections with more than ten warnings of one reason, seen by the
\* events page
InitSample ==
    /\ nodes = <<>>
    /\ pods = <<>>
    /\ events \in SampleEventLists(MaxSampleEvents)
    /\ Unrendered
    /\ markupRaises = FALSE

NextSample == EventsPage

SpecSample == InitSample /\ [][NextSample]_vars

\* events of every age, seen by the events page while its time range and
\* its warnings checkbox are operated
InitWindows ==
    /\ nodes = <<>>
    /\ pods = <<>>
    /\ events \in SeqsUpTo(WindowEventValues, MaxWindowEvents)
    /\ Unrendered
    /\ markupRaises = FALSE

NextWindows ==
    \/ EventsPage
    \/ \E filter \in TimeFilters : EventsPage_setTimeFilter(filter)
    \/ \E checked \in BOOLEAN : EventsPage_setShowOnlyWarnings(checked)

SpecWindows == InitWindows /\ [][NextWindows]_vars

\* namespaces with and without issues, seen by the pods page while its
\* checkbox, its heatmap cells and its rows are clicked
InitCells ==
    /\ nodes = <<>>
    /\ pods \in CellPodLists
    /\ events \in PodEventLists
    /\ Unrendered
    /\ markupRaises = FALSE

NextCells ==
    \/ PodsPage
    \/ \E checked \in BOOLEAN : PodsPage_setShowOnlyIssues(checked)
    \/ \E namespace \in CellNamespaces : PodsPage_scrollToNamespace(namespace)
    \/ \E namespace \in CellNamespaces : PodsPage_toggleNamespace(namespace)

SpecCells == InitCells /\ [][NextCells]_vars

\* two rows on each of the nodes, pods and events pages, toggled at any
\* moment: also again before the render that a toggle scheduled has run
InitRows ==
    /\ nodes \in RowNodeLists
    /\ pods \in RowPodLists
    /\ events \in RowEventLists
    /\ Unrendered
    /\ markupRaises = FALSE

NextRows ==
    \/ NodesPage
    \/ PodsPage
    \/ EventsPage
    \/ \E nodeName \in RowKeys : NodesPage_toggleNodeExpanded(nodeName)
    \/ \E namespace \in RowKeys : PodsPage_toggleNamespace(namespace)
    \/ \E reason \in RowKeys : EventsPage_toggleReasonExpanded(reason)

SpecRows == InitRows /\ [][NextRows]_vars

\* the pages opened, left and opened again by the host
InitMount ==
    /\ nodes \in RowNodeLists
    /\ pods \in RowPodLists
    /\ events \in RowEventLists
    /\ Unrendered
    /\ markupRaises \in BOOLEAN

NextMount ==
    \/ OverviewPage
    \/ SreStatsPage
    \/ NodesPage
    \/ PodsPage
    \/ EventsPage
    \/ \E p \in Pages : Mount(p)
    \/ \E p \in Pages : Unmount(p)

SpecMount == InitMount /\ [][NextMount]_vars

\* pod and event collections together, seen by the three pages that hold
\* copies of the same aggregations
InitCopies ==
    /\ nodes = <<>>
    /\ pods \in SeqsUpTo(CopyPodValues, MaxCopyItems)
    /\ events \in SeqsUpTo(CopyEventValues, MaxCopyItems)
    /\ Unrendered
    /\ markupRaises = FALSE

NextCopies == SreStatsPage \/ PodsPage \/ EventsPage

SpecCopies == InitCopies /\ [][NextCopies]_vars

\* node, pod and event collections together, seen by the overview page
InitHealth ==
    /\ nodes \in NodeLists(HealthNodeShapes, MaxHealthItems)
    /\ pods \in SeqsUpTo(HealthPodValues, MaxHealthItems)
    /\ events \in SeqsUpTo(HealthEventValues, MaxHealthItems)
    /\ Unrendered
    /\ markupRaises = FALSE

NextHealth == OverviewPage

SpecHealth == InitHealth /\ [][NextHealth]_vars

\* every collection together, seen by all pages: each page renders once
InitFrame ==
    /\ nodes \in StoreNodeLists
    /\ pods \in StorePodLists
    /\ events \in StoreEventLists
    /\ Unrendered
    /\ markupRaises \in BOOLEAN

NextFrame == OverviewPage \/ SreStatsPage \/ NodesPage \/ PodsPage \/ EventsPage

SpecFrame == InitFrame /\ [][NextFrame]_vars

\* the stores change while the SRE-stats page and the nodes page are
\* displayed, and the columns of the nodes table are clicked
Init ==
    /\ nodes \in WatchedNodeLists
    /\ pods \in WatchedPodLists
    /\ events \in WatchedEventLists
    /\ Unrendered
    /\ markupRaises = FALSE

Next ==
    \/ \E items \in WatchedNodeLists, inPlace \in BOOLEAN : nodesStore_update(items, inPlace)
    \/ \E items \in WatchedPodLists, inPlace \in BOOLEAN : podsStore_update(items, inPlace)
    \/ \E items \in WatchedEventLists, inPlace \in BOOLEAN : eventStore_update(items, inPlace)
    \/ SreStatsPage
    \/ NodesPage
    \/ \E column \in SortColumns : NodesPage_handleSort(column)

Spec == Init /\ [][Next]_vars

-----------------------------------------------------------------------------
(* Properties of the node aggregations.                                    *)

NodesWithStatus(status) == {i \in 1..Len(nodes) : getNodeStatus(nodes[i]) = status}

StatusCountsPartition(c) ==
    /\ c.total = Len(nodes)
    /\ c.ready + c.notReady + c.schedulingDisabled + c.unknown = c.total
    /\ c.ready = Cardinality(NodesWithStatus("Ready"))
    /\ c.notReady = Cardinality(NodesWithStatus("NotReady"))
    /\ c.schedulingDisabled = Cardinality(NodesWithStatus("SchedulingDisabled"))
    /\ c.unknown = Cardinality(NodesWithStatus("Unknown"))

\* C4: nodeStatusCounts, on the SRE-stats page and on the nodes page, counts
\* every node under exactly one of ready, notReady, schedulingDisabled and
\* unknown: each count is the number of nodes of that status and the four
\* counts add up to total, the number of nodes.
C4_StatusCountsPartition ==
    /\ sreStats.rendered => StatusCountsPartition(sreStats.nodeStatusCounts)
    /\ nodesPage.rendered => StatusCountsPartition(nodesPage.nodeStatusCounts)

C4_Witness ==
    /\ sreStats.rendered
    /\ nodesPage.rendered
    /\ sreStats.nodeStatusCounts.unknown = 1
    /\ sreStats.nodeStatusCounts.schedulingDisabled = 1
    /\ nodesPage.nodeStatusCounts.total = 2

\* the (node, taint) positions of the node collection
TaintPositions ==
    UNION {{<<n, t>> : t \in 1..Len(nodes[n].taints)} : n \in 1..Len(nodes)}

LabelAt(p) == formatNodeTaint(nodes[p[1]].taints[p[2]])

\* the (node, taint) positions whose formatted label is the given one
TaintPairs(label) == {p \in TaintPositions : LabelAt(p) = label}

AllTaintLabels == {LabelAt(p) : p \in TaintPositions}

TaintSummaryCounts(ts) ==
    /\ \A i, j \in 1..Len(ts) : ts[i].taint = ts[j].taint => i = j
    /\ {ts[i].taint : i \in 1..Len(ts)} = AllTaintLabels
    /\ \A i \in 1..Len(ts) :
          /\ ts[i].occurrences = Cardinality(TaintPairs(ts[i].taint))
          /\ ts[i].nodes = Cardinality({nodes[p[1]].name : p \in TaintPairs(ts[i].taint)})
          /\ ts[i].nodes <= ts[i].occurrences

\* C5: buildTaintSummary, on both pages, returns exactly one entry per
\* distinct formatted taint label; the entry's occurrences is the number of
\* (node, taint) pairs formatting to that label, its nodes the number of
\* distinct node names carrying it, and nodes <= occurrences.
C5_TaintSummaryCounts ==
    /\ sreStats.rendered => TaintSummaryCounts(sreStats.taintSummary)
    /\ nodesPage.rendered => TaintSummaryCounts(nodesPage.taintSummary)

C5_Witness ==
    /\ sreStats.rendered
    /\ nodesPage.rendered
    /\ \E i \in 1..Len(sreStats.taintSummary) :
          /\ sreStats.taintSummary[i].nodes = 2
          /\ sreStats.taintSummary[i].occurrences = 3
    /\ \E i \in 1..Len(nodesPage.taintSummary) :
          nodesPage.taintSummary[i] =
              [taint |-> "dedicated=gpu:NoSchedule", nodes |-> 1, occurrences |-> 1]

-----------------------------------------------------------------------------
(* Properties of the pod aggregations.                                     *)

\* the namespace a pod is grouped under
PodNamespace(pod) == IF pod.ns = Undefined THEN "<unknown>" ELSE pod.ns

PodsOf(namespace) == {i \in 1..Len(pods) : PodNamespace(pods[i]) = namespace}

PhaseCounts(stats) ==
    \A k \in 1..Len(stats) :
        LET e == stats[k]
            P == PodsOf(e.namespace)
        IN  /\ e.running + e.pending + e.failed + e.succeeded + e.unknown = e.total
            /\ e.total = Cardinality(P)
            /\ e.running = Cardinality({i \in P : pods[i].phase = "Running"})
            /\ e.pending = Cardinality({i \in P : pods[i].phase = "Pending"})
            /\ e.failed = Cardinality({i \in P : pods[i].phase = "Failed"})
            /\ e.succeeded = Cardinality({i \in P : pods[i].phase = "Succeeded"})
            /\ e.unknown = Cardinality({i \in P : pods[i].phase \notin
                                {"Running", "Pending", "Failed", "Succeeded"}})

\* C3: in every entry of buildNamespacePodStats the five phase counts add up
\* to total, total is the number of pods of that namespace, and a pod whose
\* phase is none of Running, Pending, Failed, Succeeded is counted under
\* unknown.
C3_PhaseCountsSumToTotal ==
    /\ sreStats.rendered => PhaseCounts(sreStats.namespaceStats)
    /\ podsPage.rendered => PhaseCounts(podsPage.namespaceStats)

C3_Witness ==
    /\ sreStats.rendered
    /\ podsPage.rendered
    /\ \E k \in 1..Len(sreStats.namespaceStats) :
          /\ sreStats.namespaceStats[k].unknown = 1
          /\ sreStats.namespaceStats[k].running = 1
          /\ sreStats.namespaceStats[k].total = 3
    /\ Len(podsPage.namespaceStats) = 1

\* the restart counts of the pods with the given indices, added up
RECURSIVE RestartsOf(_)
RestartsOf(P) ==
    IF P = {} THEN 0
    ELSE LET i == CHOOSE j \in P : TRUE IN pods[i].restarts + RestartsOf(P \ {i})

\* the value the warning map holds for a namespace, 0 when it has no entry
WarningsIn(warningMap, namespace) ==
    IF \E k \in 1..Len(warningMap) : warningMap[k].key = namespace
    THEN (CHOOSE kv \in {warningMap[k] : k \in 1..Len(warningMap)} : kv.key = namespace).value
    ELSE 0

IssueScores(stats, warningMap) ==
    \A k \in 1..Len(stats) :
        LET e == stats[k]
            P == PodsOf(e.namespace)
        IN  /\ e.issues = Cardinality({i \in P : pods[i].hasIssues})
            /\ e.restarts = RestartsOf(P)
            /\ e.warningEvents = WarningsIn(warningMap, e.namespace)
            /\ e.issueScore = e.issues + e.restarts + e.warningEvents

\* C9: in every entry of buildNamespacePodStats issueScore = issues +
\* restarts + warningEvents, issues being the number of the namespace's pods
\* with issues, restarts the sum of the restart counts of its pods and
\* warningEvents the value of the warning map for the namespace (0 without
\* an entry).
C9_IssueScore ==
    /\ sreStats.rendered => IssueScores(sreStats.namespaceStats, sreStats.warningEventsByNamespace)
    /\ podsPage.rendered => IssueScores(podsPage.namespaceStats, podsPage.warningEventsByNamespace)

C9_Witness ==
    /\ sreStats.rendered
    /\ podsPage.rendered
    /\ \E k \in 1..Len(sreStats.namespaceStats) :
          /\ sreStats.namespaceStats[k].issues = 1
          /\ sreStats.namespaceStats[k].restarts = 3
          /\ sreStats.namespaceStats[k].warningEvents = 2
          /\ sreStats.namespaceStats[k].issueScore = 6
    /\ \E k \in 1..Len(podsPage.namespaceStats) :
          /\ podsPage.namespaceStats[k].namespace = "<unknown>"
          /\ podsPage.namespaceStats[k].warningEvents = 0

HeatmapExtremes(heatmap) ==
    \A k \in 1..Len(heatmap) :
        LET e == heatmap[k]
            isMax == \A j \in 1..Len(heatmap) : heatmap[j].issueScore <= e.issueScore
        IN  /\ (isMax /\ e.issueScore > 0) => e.intensity = 4
            /\ e.issueScore = 0 => e.intensity = 0

\* C6: in the heatmap of either page, every entry whose issueScore is the
\* maximum and positive has intensity 4 and every entry whose issueScore is 0
\* has intensity 0, also when all scores are 0.
C6_HeatmapExtremes ==
    /\ sreStats.rendered => HeatmapExtremes(sreStats.heatmapEntries)
    /\ podsPage.rendered => HeatmapExtremes(podsPage.heatmapEntries)

C6_Witness ==
    /\ sreStats.rendered
    /\ podsPage.rendered
    /\ Len(sreStats.heatmapEntries) = 2
    /\ \E j, k \in 1..2 :
          /\ sreStats.heatmapEntries[j].issueScore > 0
          /\ sreStats.heatmapEntries[j].intensity = 4
          /\ sreStats.heatmapEntries[k].issueScore = 0
          /\ sreStats.heatmapEntries[k].intensity = 0
    /\ podsPage.heatmapEntries = sreStats.heatmapEntries

-----------------------------------------------------------------------------
(* Properties of the warning-event aggregations.                           *)

\* the counts (1 for an event without count) of the events of evs at the
\* indices I, added up
RECURSIVE CountSum(_, _)
CountSum(evs, I) ==
    IF I = {} THEN 0
    ELSE LET i == CHOOSE j \in I : TRUE
         IN  (IF evs[i].count = <<>> THEN 1 ELSE evs[i].count[1]) + CountSum(evs, I \ {i})

WarningIndices(evs) == {i \in 1..Len(evs) : evs[i].type = "Warning"}

\* C2: the counts of the entries of buildWarningReasons add up to the same
\* number as the values of the buildWarningEventsByNamespace map, which is the
\* warnings total of eventSummary: the sum of the counts of the warning
\* events, an event without count counting 1 and other events nothing.
C2_WarningTotalsAgree ==
    sreStats.rendered =>
        LET total == CountSum(events, WarningIndices(events))
        IN  /\ SumSeq([k \in 1..Len(sreStats.warningReasons) |->
                          sreStats.warningReasons[k].count]) = total
            /\ SumSeq([k \in 1..Len(sreStats.warningEventsByNamespace) |->
                          sreStats.warningEventsByNamespace[k].value]) = total
            /\ sreStats.eventSummary.warnings = total

C2_Witness ==
    /\ sreStats.rendered
    /\ sreStats.eventSummary.warnings = 3
    /\ sreStats.eventSummary.normals = 1
    /\ Len(sreStats.warningReasons) = 2
    /\ Len(sreStats.warningEventsByNamespace) = 1

\* the reason and the namespace the events page groups a warning event under
ReasonOf(event) == IF event.reason = Undefined THEN "<unknown>" ELSE event.reason

InvolvedNamespaceOf(event) ==
    IF event.involvedObject.namespace \in {Undefined, ""} THEN "cluster"
    ELSE event.involvedObject.namespace

WithReason(evs, reason) == {i \in WarningIndices(evs) : ReasonOf(evs[i]) = reason}

Min(S) == CHOOSE x \in S : \A y \in S : x <= y

ByReason(wr, evs) ==
    /\ \A j, k \in 1..Len(wr) : wr[j].reason = wr[k].reason => j = k
    /\ {wr[k].reason : k \in 1..Len(wr)} = {ReasonOf(evs[i]) : i \in WarningIndices(evs)}
    /\ \A k \in 1..Len(wr) :
          LET I == WithReason(evs, wr[k].reason)
              seen == wr[k].namespaces
              first(n) == Min({i \in I : InvolvedNamespaceOf(evs[i]) = n})
          IN  /\ wr[k].count = CountSum(evs, I)
              /\ {seen[a] : a \in 1..Len(seen)} = {InvolvedNamespaceOf(evs[i]) : i \in I}
              /\ \A a, b \in 1..Len(seen) : a < b => first(seen[a]) < first(seen[b])
    /\ \A j, k \in 1..Len(wr) :
          j < k => \/ wr[j].count > wr[k].count
                   \/ /\ wr[j].count = wr[k].count
                      /\ Min(WithReason(evs, wr[j].reason)) < Min(WithReason(evs, wr[k].reason))

\* C10: the by-reason aggregation of the events page returns one entry per
\* distinct reason of the warning events it is given (a missing reason is
\* "<unknown>"); the entry's count is the sum of the counts of the warning
\* events of that reason, its namespaces are their distinct involved-object
\* namespaces (a missing one is "cluster") in first-seen order, and the
\* entries are sorted descending by count, equal counts in the order in which
\* the reasons were first met.
C10_ByReason ==
    eventsPage.rendered => ByReason(eventsPage.warningReasons, eventsPage.filteredEvents)

C10_Witness ==
    /\ eventsPage.rendered
    /\ Len(eventsPage.filteredEvents) = 3
    /\ Len(eventsPage.warningReasons) = 2
    /\ eventsPage.warningReasons[1].reason = "BackOff"
    /\ eventsPage.warningReasons[1].count = 3
    /\ eventsPage.warningReasons[1].namespaces = <<"a", "cluster">>
    /\ eventsPage.warningReasons[2].reason = "<unknown>"
    /\ eventsPage.warningReasons[2].count = 2
    /\ ReasonOf(eventsPage.filteredEvents[1]) = "<unknown>"

-----------------------------------------------------------------------------
(* Properties of the cluster health score.                                 *)

\* C1: for every combination of node, pod and event collections the cluster
\* health score of the overview summary is an integer from 0 to 100, also
\* when a pod is both Failed and flagged by hasIssues().
C1_ScoreInRange ==
    overview.rendered => overview.summary.clusterHealthScore \in 0..100

\* the first Ready condition of every node has status "True"
AllNodesReady ==
    \A i \in 1..Len(nodes) :
        \E c \in 1..Len(nodes[i].conditions) :
            /\ nodes[i].conditions[c].type = "Ready"
            /\ nodes[i].conditions[c].status = "True"
            /\ \A b \in 1..(c - 1) : nodes[i].conditions[b].type # "Ready"

NothingWrong ==
    /\ AllNodesReady
    /\ \A i \in 1..Len(pods) : ~pods[i].hasIssues /\ pods[i].phase # "Failed"
    /\ CountSum(events, WarningIndices(events)) = 0

\* C7: the cluster health score is 100 when there is no node, and is 100
\* when there is at least one node, every node is Ready, no pod has issues
\* or is Failed and the warning events count 0.
C7_HealthyScoresHundred ==
    overview.rendered =>
        /\ Len(nodes) = 0 => overview.summary.clusterHealthScore = 100
        /\ (Len(nodes) > 0 /\ NothingWrong) => overview.summary.clusterHealthScore = 100

-----------------------------------------------------------------------------
(* Properties of the node status.                                          *)

ReadyPositions(node) == {i \in 1..Len(node.conditions) : node.conditions[i].type = "Ready"}

\* the status of a node, stated from its flag and its first Ready condition
StatusOf(node) ==
    IF node.unschedulable THEN "SchedulingDisabled"
    ELSE IF ReadyPositions(node) = {} THEN "Unknown"
    ELSE LET first == CHOOSE i \in ReadyPositions(node) :
                          \A j \in ReadyPositions(node) : i <= j
         IN  IF node.conditions[first].status = "True" THEN "Ready" ELSE "NotReady"

NodesOfStatus(status) == {i \in 1..Len(nodes) : StatusOf(nodes[i]) = status}

StatusCountsByRule(c) ==
    /\ c.schedulingDisabled = Cardinality(NodesOfStatus("SchedulingDisabled"))
    /\ c.unknown = Cardinality(NodesOfStatus("Unknown"))
    /\ c.ready = Cardinality(NodesOfStatus("Ready"))
    /\ c.notReady = Cardinality(NodesOfStatus("NotReady"))

\* C14: getNodeStatus, on the SRE-stats page and on the nodes page, gives
\* SchedulingDisabled to every unschedulable node whatever its conditions;
\* to a schedulable node it gives Unknown when it has no Ready condition,
\* Ready when its first Ready condition has status exactly "True", and
\* NotReady otherwise: the status counts of every node collection are the
\* numbers of nodes the rule puts under each status.
C14_NodeStatusRule ==
    /\ sreStats.rendered => StatusCountsByRule(sreStats.nodeStatusCounts)
    /\ nodesPage.rendered => StatusCountsByRule(nodesPage.nodeStatusCounts)

\* an unschedulable node whose Ready condition is True, beside a schedulable
\* one whose first Ready condition is False and whose second is True
C14_Witness ==
    /\ sreStats.rendered
    /\ nodesPage.rendered
    /\ Len(nodes) = 2
    /\ nodes[1].unschedulable
    /\ nodes[1].conditions = <<Condition("Ready", "True")>>
    /\ ~nodes[2].unschedulable
    /\ nodes[2].conditions = <<Condition("Ready", "False"), Condition("Ready", "True")>>
    /\ sreStats.nodeStatusCounts.schedulingDisabled = 1
    /\ sreStats.nodeStatusCounts.notReady = 1
    /\ nodesPage.nodeStatusCounts.notReady = 1

-----------------------------------------------------------------------------
(* Properties of the order of the taint summary.                           *)

\* position p is met before position q by the loops over nodes and taints
MetBefore(p, q) == p[1] < q[1] \/ (p[1] = q[1] /\ p[2] < q[2])

\* the label a was first met before the label b
LabelMetBefore(a, b) ==
    \E p \in TaintPairs(a) : \A q \in TaintPairs(b) : MetBefore(p, q)

TaintSummaryOrder(ts) ==
    \A i, j \in 1..Len(ts) :
        i < j => \/ ts[i].occurrences > ts[j].occurrences
                 \/ /\ ts[i].occurrences = ts[j].occurrences
                    /\ LabelMetBefore(ts[i].taint, ts[j].taint)

\* C20: the taint summary, on both pages, is sorted by descending
\* occurrences, and entries of equal occurrences stand in the order their
\* labels were first met while walking the nodes and their taints.
C20_TaintSummaryOrder ==
    /\ sreStats.rendered => TaintSummaryOrder(sreStats.taintSummary)
    /\ nodesPage.rendered => TaintSummaryOrder(nodesPage.taintSummary)

\* the label met second occurs three times and is listed first
C20_Witness ==
    /\ sreStats.rendered
    /\ nodesPage.rendered
    /\ Len(nodes) = 2
    /\ Len(nodes[1].taints) = 2
    /\ LabelAt(<<1, 1>>) = "dedicated=gpu:NoSchedule"
    /\ Len(sreStats.taintSummary) = 2
    /\ sreStats.taintSummary[1].taint = "intent:NoExecute"
    /\ sreStats.taintSummary[1].occurrences = 3
    /\ sreStats.taintSummary[2].taint = "dedicated=gpu:NoSchedule"
    /\ nodesPage.taintSummary = sreStats.taintSummary

-----------------------------------------------------------------------------
(* Properties of the order of the namespace statistics.                    *)

\* the namespace a was first met before the namespace b in the pod collection
NamespaceMetBefore(a, b) == \E i \in PodsOf(a) : \A j \in PodsOf(b) : i < j

NamespaceStatsOrder(stats) ==
    \A i, j \in 1..Len(stats) :
        i < j => \/ stats[i].issues > stats[j].issues
                 \/ /\ stats[i].issues = stats[j].issues
                    /\ stats[i].total > stats[j].total
                 \/ /\ stats[i].issues = stats[j].issues
                    /\ stats[i].total = stats[j].total
                    /\ NamespaceMetBefore(stats[i].namespace, stats[j].namespace)

\* C16: buildNamespacePodStats, on the SRE-stats page and on the pods page,
\* returns its entries sorted by descending issues, entries of equal issues
\* by descending total, and entries equal on both in the order their
\* namespaces were first met in the pod collection.
C16_NamespaceStatsOrder ==
    /\ sreStats.rendered => NamespaceStatsOrder(sreStats.namespaceStats)
    /\ podsPage.rendered => NamespaceStatsOrder(podsPage.namespaceStats)

\* the namespace met first has no issue and two pods and is listed second
C16_Witness ==
    /\ sreStats.rendered
    /\ podsPage.rendered
    /\ Len(pods) = 3
    /\ pods[1].ns = Undefined
    /\ Len(sreStats.namespaceStats) = 2
    /\ sreStats.namespaceStats[1].namespace = "a"
    /\ sreStats.namespaceStats[1].issues = 1
    /\ sreStats.namespaceStats[1].total = 1
    /\ sreStats.namespaceStats[2].issues = 0
    /\ sreStats.namespaceStats[2].total = 2
    /\ podsPage.namespaceStats[1].namespace = "a"

-----------------------------------------------------------------------------
(* Properties of the heatmap entries.                                      *)

TopScore(stats) ==
    IF stats = <<>> THEN 0
    ELSE LET k == CHOOSE i \in 1..Len(stats) :
                      \A j \in 1..Len(stats) : stats[j].issueScore <= stats[i].issueScore
         IN  Max(0, stats[k].issueScore)

\* the bucket of the ratio score / top, the fractions cleared
Bucket(score, top) ==
    IF top = 0 THEN 0
    ELSE IF 4 * score >= 3 * top THEN 4
    ELSE IF 2 * score >= top THEN 3
    ELSE IF 4 * score >= top THEN 2
    ELSE IF score > 0 THEN 1
    ELSE 0

HeatmapOf(stats, heatmap) ==
    /\ Len(heatmap) = Len(stats)
    /\ \A k \in 1..Len(stats) :
          /\ DOMAIN heatmap[k] = DOMAIN stats[k] \cup {"intensity"}
          /\ \A f \in DOMAIN stats[k] : heatmap[k][f] = stats[k][f]
          /\ heatmap[k].intensity = Bucket(stats[k].issueScore, TopScore(stats))

\* C18: on the SRE-stats page and on the pods page the heatmap entries are
\* the namespaceStats entries, as many and in the same order, each extended
\* only with its intensity: 4 when issueScore / maxScore >= 0.75, 3 when
\* >= 0.50, 2 when >= 0.25, 1 when > 0 and 0 otherwise.
C18_HeatmapBuckets ==
    /\ sreStats.rendered => HeatmapOf(sreStats.namespaceStats, sreStats.heatmapEntries)
    /\ podsPage.rendered => HeatmapOf(podsPage.namespaceStats, podsPage.heatmapEntries)

\* a namespace at exactly half the highest score
C18_Witness ==
    /\ sreStats.rendered
    /\ podsPage.rendered
    /\ Len(sreStats.heatmapEntries) = 2
    /\ sreStats.heatmapEntries[1].issueScore = 6
    /\ sreStats.heatmapEntries[1].intensity = 4
    /\ sreStats.heatmapEntries[2].issueScore = 3
    /\ sreStats.heatmapEntries[2].intensity = 3
    /\ podsPage.heatmapEntries[2].intensity = 3

-----------------------------------------------------------------------------
(* Properties of the overview's node counts.                               *)

\* the node has a Ready condition of status "True"
HasReadyTrue(node) ==
    \E i \in 1..Len(node.conditions) :
        node.conditions[i].type = "Ready" /\ node.conditions[i].status = "True"

\* C19: the overview's nodesNotReady is the number of nodes without a Ready
\* condition of status "True", the nodes without any Ready condition
\* included and whatever the unschedulable flag, so nodes - nodesNotReady is
\* the number of nodes whose Ready condition has status "True".
C19_NodesNotReady ==
    overview.rendered =>
        /\ overview.summary.nodesNotReady =
               Cardinality({i \in 1..Len(nodes) : ~HasReadyTrue(nodes[i])})
        /\ overview.summary.nodes - overview.summary.nodesNotReady =
               Cardinality({i \in 1..Len(nodes) : HasReadyTrue(nodes[i])})

\* an unschedulable node that is Ready beside a node without conditions
C19_Witness ==
    /\ overview.rendered
    /\ Len(nodes) = 2
    /\ nodes[1].unschedulable
    /\ HasReadyTrue(nodes[1])
    /\ nodes[2].conditions = <<>>
    /\ overview.summary.nodes = 2
    /\ overview.summary.nodesNotReady = 1

-----------------------------------------------------------------------------
(* Properties of the namespace a warning event is counted under.           *)

\* the namespace of the involved object, or the placeholder
InvolvedKey(event, placeholder) ==
    IF event.involvedObject.namespace = Undefined THEN placeholder
    ELSE event.involvedObject.namespace

\* the summed count of the warning events among evs counted under key
WarningsUnder(evs, key, placeholder) ==
    SumSeq([i \in 1..Len(evs) |->
               IF isWarning(evs[i]) /\ InvolvedKey(evs[i], placeholder) = key
               THEN countOrOne(evs[i]) ELSE 0])

\* the Map holds, for every involved-object key of a warning event, the
\* summed count of the warning events of that key, and no other key
KeyedByInvolvedNamespace(warnings, evs, placeholder) ==
    /\ \A i \in 1..Len(evs) :
          isWarning(evs[i]) => MapHas(warnings, InvolvedKey(evs[i], placeholder))
    /\ \A k \in 1..Len(warnings) :
          warnings[k].value = WarningsUnder(evs, warnings[k].key, placeholder)

\* C15: every grouping of the warning events by namespace counts a warning
\* event under the namespace of its involved object, and under the
\* placeholder when the involved object has none, also when the event's own
\* namespace is another one: the Maps of the SRE-stats page and of the pods
\* page, and the warnings of namespaceEventCounts on the events page.
C15_KeyedByInvolvedNamespace ==
    /\ sreStats.rendered =>
          KeyedByInvolvedNamespace(sreStats.warningEventsByNamespace, events, "<cluster>")
    /\ podsPage.rendered =>
          KeyedByInvolvedNamespace(podsPage.warningEventsByNamespace, events, "<cluster>")
    /\ eventsPage.rendered =>
          KeyedByInvolvedNamespace(
              [k \in 1..Len(eventsPage.namespaceEventCounts) |->
                  [key |-> eventsPage.namespaceEventCounts[k].namespace,
                   value |-> eventsPage.namespaceEventCounts[k].warnings]],
              eventsPage.filteredEvents, "cluster")

\* the events page alone counts by the involved object's namespace
C15_EventsPageKeyedByInvolvedNamespace ==
    eventsPage.rendered =>
        KeyedByInvolvedNamespace(
            [k \in 1..Len(eventsPage.namespaceEventCounts) |->
                [key |-> eventsPage.namespaceEventCounts[k].namespace,
                 value |-> eventsPage.namespaceEventCounts[k].warnings]],
            eventsPage.filteredEvents, "cluster")

-----------------------------------------------------------------------------
(* Properties of the top-namespaces views.                                 *)

TopOf(stats, top, limit) ==
    /\ Len(top) <= limit
    /\ \A k \in 1..Len(top) :
          /\ top[k].issueScore > 0
          /\ \E i \in 1..Len(stats) : stats[i] = top[k]
    /\ \A i, j \in 1..Len(top) : i < j => top[i].issueScore >= top[j].issueScore
    /\ \A i \in 1..Len(stats) :
          (stats[i].issueScore > 0 /\ \A k \in 1..Len(top) : top[k] # stats[i]) =>
              \A k \in 1..Len(top) : stats[i].issueScore <= top[k].issueScore

\* C17: topNamespaces holds only entries of namespaceStats with
\* issueScore > 0, sorted by descending issueScore, at most 8 of them on the
\* SRE-stats page and at most 10 on the pods page, and no entry with
\* issueScore > 0 that it omits has a greater issueScore than one it holds.
C17_TopNamespaces ==
    /\ sreStats.rendered => TopOf(sreStats.namespaceStats, sreStats.topNamespaces, 8)
    /\ podsPage.rendered => TopOf(podsPage.namespaceStats, podsPage.topNamespaces, 10)

\* eleven namespaces with issues: both views are full and omit entries
C17_Witness ==
    /\ sreStats.rendered
    /\ podsPage.rendered
    /\ Len(sreStats.namespaceStats) = 11
    /\ \A i \in 1..11 : sreStats.namespaceStats[i].issueScore > 0
    /\ Len(sreStats.topNamespaces) = 8
    /\ Len(podsPage.topNamespaces) = 10
    /\ sreStats.topNamespaces[1].issueScore = 3
    /\ sreStats.topNamespaces[8].issueScore = 2
    /\ podsPage.topNamespaces[10].issueScore = 1

-----------------------------------------------------------------------------
(* Properties of the renders that follow a change.                         *)

\* page p displays its markup and no render of it is pending
Displayed(p) == shown[p] = "page" /\ p \notin dirty

\* C11: whatever changes the host has made to the node, pod and event
\* collections, once a page has rendered after them every derived value it
\* shows is the aggregation of the collections' present content: the status
\* counts, the taint summary, the namespace statistics, the heatmap and the
\* sorted node list are never those of an earlier content, be the content
\* changed inside the same array or in a new one.
C11_ShownValuesCurrent ==
    /\ Displayed("sreStats") =>
          LET namespaceStats ==
                  buildNamespacePodStats(pods, buildWarningEventsByNamespace(events))
          IN  /\ sreStats.nodeStatusCounts = SreStatsPage_nodeStatusCounts(nodes)
              /\ sreStats.taintSummary = buildTaintSummary(nodes)
              /\ sreStats.namespaceStats = namespaceStats
              /\ sreStats.heatmapEntries = SreStatsPage_heatmapEntries(namespaceStats)
    /\ Displayed("nodesPage") =>
          /\ nodesPage.nodeStatusCounts = NodesPage_nodeStatusCounts(nodes)
          /\ nodesPage.taintSummary = NodesPage_buildTaintSummary(nodes)
          /\ nodesPage.sortedNodes =
                 NodesPage_sortedNodes(nodes, sortColumn, sortDirection).value

\* C12: an exception raised while a page renders, be it while the memoised
\* aggregates and sorted lists are computed or while the markup is built,
\* never leaves the page: the render ends with the markup or with the
\* fallback ErrorPage.
C12_ExceptionsCaught == \A p \in Pages : shown[p] # "raised"

-----------------------------------------------------------------------------
(* Properties of what a render leaves of its inputs.                       *)

\* C13: no render changes what it aggregates: once the taint summary, the
\* namespace statistics, the top namespaces, the heatmap entries, the sorted
\* node list and the recent warning events are computed, the node, pod and
\* event collections hold the same elements in the same order, and so does
\* the memoised namespaceStats array of the SRE-stats and pods pages.
C13_InputsUnchanged ==
    [][/\ nodes' = nodes
       /\ pods' = pods
       /\ events' = events
       /\ sreStats'.rendered =>
             sreStats'.namespaceStats =
                 buildNamespacePodStats(pods, sreStats'.warningEventsByNamespace)
       /\ podsPage'.rendered =>
             podsPage'.namespaceStats =
                 PodsPage_buildNamespacePodStats(pods, podsPage'.warningEventsByNamespace)]_vars

\* every page has rendered collections that its sorts had to reorder
C13_Witness ==
    /\ overview.rendered
    /\ sreStats.rendered
    /\ nodesPage.rendered
    /\ podsPage.rendered
    /\ Len(nodes) = 2
    /\ nodesPage.sortedNodes = <<nodes[2], nodes[1]>>
    /\ Len(sreStats.taintSummary) = 1
    /\ Len(events) = 3
    /\ overview.recentWarningEvents = <<events[3], events[1]>>
    /\ Len(sreStats.namespaceStats) = 2
    /\ sreStats.namespaceStats[1].namespace = "a"
    /\ sreStats.topNamespaces[1].namespace = "<unknown>"
    /\ podsPage.topNamespaces[1].namespace = "<unknown>"
    /\ Len(sreStats.heatmapEntries) = 2

-----------------------------------------------------------------------------
(* Properties of the health status.                                        *)

HealthStatuses == {"healthy", "warning", "critical"}

\* C22: the health card shows "healthy" for a score of 80 or more, "warning"
\* for a score from 50 to 79 and "critical" for a score below 50: whatever
\* score the health formula produces, the status is exactly one of the three.
C22_HealthBands ==
    overview.rendered =>
        LET score == overview.summary.clusterHealthScore
        IN  /\ overview.healthStatus \in HealthStatuses
            /\ overview.healthStatus = "healthy" <=> score >= 80
            /\ overview.healthStatus = "warning" <=> (score >= 50 /\ score < 80)
            /\ overview.healthStatus = "critical" <=> score < 50

\* a score on the lower bound of the healthy band
C22_Witness ==
    /\ overview.rendered
    /\ overview.summary.clusterHealthScore = 80
    /\ overview.healthStatus = "healthy"

\* a score of the warning band
C22_WitnessWarning ==
    /\ overview.rendered
    /\ overview.summary.clusterHealthScore \in 50..79
    /\ overview.healthStatus = "warning"

\* a score below the range the formula is documented with
C22_WitnessCritical ==
    /\ overview.rendered
    /\ overview.summary.clusterHealthScore < 0
    /\ overview.healthStatus = "critical"

-----------------------------------------------------------------------------
(* Properties of the namespaces the pod statistics list.                   *)

PodNamespaces == {PodNamespace(pods[i]) : i \in 1..Len(pods)}

\* the entries of stats are those of the pods' namespaces, one each
OnePerPodNamespace(stats) ==
    /\ {stats[k].namespace : k \in 1..Len(stats)} = PodNamespaces
    /\ Len(stats) = Cardinality(PodNamespaces)
    /\ \A k \in 1..Len(stats) : stats[k].namespace # "<cluster>"

WarningEventsListed(stats) == SumSeq([k \in 1..Len(stats) |-> stats[k].warningEvents])

\* C25: buildNamespacePodStats returns one entry for each distinct namespace
\* of the pods, a pod without namespace standing under "<unknown>", and no
\* other entry: a namespace that has warning events but no pod is not listed
\* and neither is "<cluster>", so the warningEvents of the entries add up to
\* at most the total of the warning events, and to less when warnings lie
\* outside the pods' namespaces.
C25_OneEntryPerPodNamespace ==
    sreStats.rendered =>
        /\ OnePerPodNamespace(sreStats.namespaceStats)
        /\ WarningEventsListed(sreStats.namespaceStats)
               <= CountSum(events, WarningIndices(events))
        /\ \A k \in 1..Len(sreStats.warningEventsByNamespace) :
              LET kv == sreStats.warningEventsByNamespace[k]
              IN  (kv.key \notin PodNamespaces /\ kv.value > 0) =>
                      WarningEventsListed(sreStats.namespaceStats)
                          < CountSum(events, WarningIndices(events))

\* pods of namespace a and without namespace, warnings of namespace b and of
\* no namespace: two entries, none of the two warnings listed
C25_Witness ==
    /\ sreStats.rendered
    /\ PodNamespaces = {"a", "<unknown>"}
    /\ Len(pods) = 3
    /\ Len(sreStats.namespaceStats) = 2
    /\ MapHas(sreStats.warningEventsByNamespace, "b")
    /\ MapHas(sreStats.warningEventsByNamespace, "<cluster>")
    /\ WarningEventsListed(sreStats.namespaceStats) = 0
    /\ sreStats.eventSummary.warnings = 2

-----------------------------------------------------------------------------
(* Properties of the sort state of the nodes table.                        *)

SortDirections == {"asc", "desc"}

\* C28: a click on the header of the column the table is sorted by flips the
\* direction and leaves the column; a click on another header makes it the
\* sort column with direction asc; starting from (name, asc) the sort column
\* is always one of the table's columns and the direction asc or desc.
C28_HandleSort ==
    [][/\ sortColumn' \in SortColumns
       /\ sortDirection' \in SortDirections
       /\ \A column \in SortColumns :
             NodesPage_handleSort(column) =>
                 IF sortColumn = column
                 THEN /\ sortColumn' = sortColumn
                      /\ sortDirection' # sortDirection
                 ELSE /\ sortColumn' = column
                      /\ sortDirection' = "asc"]_vars

\* the status header clicked twice, then the name header: the second click
\* made the direction desc, the third made it asc again
C28_Witness ==
    /\ Displayed("nodesPage")
    /\ sortColumn = "status"
    /\ sortDirection = "desc"
    /\ nodesPage.sortColumn = "status"
    /\ nodesPage.sortDirection = "desc"
    /\ Len(nodes) = 2

-----------------------------------------------------------------------------
(* Properties of the nodes table sorted by its pods column.                *)

\* sorted lists the nodes by the number of pods scheduled on each
OrderedByPods(sorted, direction) ==
    \A i \in 1..Len(sorted), j \in 1..Len(sorted) :
        i < j =>
            LET podsA == Len(getPodsOnNode(pods, sorted[i].name))
                podsB == Len(getPodsOnNode(pods, sorted[j].name))
            IN  IF direction = "asc" THEN podsA <= podsB ELSE podsA >= podsB

\* C23: once the pods column is the sort column of a nodes table of two or
\* more nodes, the render that follows completes with the markup and lists
\* the nodes by the number of pods scheduled on each, ascending or
\* descending as the direction says.
C23_SortedByPods ==
    (nodesPage.rendered /\ "nodesPage" \notin dirty
        /\ sortColumn = "pods" /\ Len(nodes) >= 2) =>
            /\ shown.nodesPage = "page"
            /\ nodesPage.sortColumn = "pods"
            /\ Len(nodesPage.sortedNodes) = Len(nodes)
            /\ OrderedByPods(nodesPage.sortedNodes, sortDirection)

-----------------------------------------------------------------------------
(* Properties of the resource sample of a warning reason.                  *)

\* the positions in evs of the warning events with the reason, ascending
WarningPositions(evs, reason) ==
    {i \in 1..Len(evs) : evs[i].type = "Warning" /\ ReasonOf(evs[i]) = reason}

\* the k-th smallest member of the set of positions I
NthOf(I, k) == CHOOSE i \in I : Cardinality({j \in I : j <= i}) = k

\* the resources of every entry are the names of the first ten such events
ResourceSamples(wr, evs) ==
    \A e \in 1..Len(wr) :
        LET I == WarningPositions(evs, wr[e].reason)
            n == IF Cardinality(I) < 10 THEN Cardinality(I) ELSE 10
        IN  /\ Len(wr[e].resources) <= 10
            /\ Len(wr[e].resources) = n
            /\ \A k \in 1..n :
                  wr[e].resources[k] = evs[NthOf(I, k)].involvedObject.name

\* C21: in every entry of the events page's buildWarningReasons the
\* resources sample holds at most 10 names: the names of the involved
\* objects of the first min(10, n) of the n warning events with that reason,
\* in the order of the input, a name standing as often as it occurs.
C21_ResourceSample ==
    eventsPage.rendered =>
        ResourceSamples(eventsPage.warningReasons, eventsPage.filteredEvents)

\* eleven BackOff warnings about four objects, a FailedMount warning between
\* them: the sample stops at the tenth and repeats the names
C21_Witness ==
    /\ eventsPage.rendered
    /\ Len(events) = 12
    /\ Cardinality(WarningPositions(events, "BackOff")) = 11
    /\ events[9].reason = "FailedMount"
    /\ Len(eventsPage.warningReasons) = 2
    /\ eventsPage.warningReasons[1].count = 11
    /\ eventsPage.warningReasons[1].resources =
           <<"pod-1", "pod-2", "pod-3", "pod-0", "pod-1", "pod-2", "pod-3", "pod-0",
             "pod-2", "pod-3">>
    /\ eventsPage.warningReasons[2].resources = <<"pod-1">>

-----------------------------------------------------------------------------
(* Properties of the time windows of the events page.                      *)

\* the positions of the events that the filter of the window keeps
Retained(filter, now) ==
    {i \in 1..Len(events) :
        EventsPage_filteredEvents(<<events[i]>>, now, filter, showOnlyWarnings) # <<>>}

\* the positions of the events that the warnings checkbox lets through
PassWarningFilter == {i \in 1..Len(events) : showOnlyWarnings => events[i].type = "Warning"}

Undated == {i \in 1..Len(events) :
               events[i].lastTimestamp = NoNumber /\ events[i].firstTimestamp = NoNumber}

\* C29: for a fixed instant and event collection the events page keeps more
\* the wider the window: what 1h keeps 6h keeps, and so on through 24h and
\* 7d to all; the window all drops no event for its age; an event without
\* lastTimestamp and firstTimestamp is kept under every window; and with
\* "show only warnings" on the summary counts no normal and no other event
\* and its total is its warnings.
C29_TimeWindows ==
    Displayed("eventsPage") =>
        \A now \in Clock :
            /\ eventsPage.filteredEvents =
                   EventsPage_filteredEvents(events, now, timeFilter, showOnlyWarnings)
            /\ Len(eventsPage.filteredEvents) = Cardinality(Retained(timeFilter, now))
            /\ Retained("1h", now) \subseteq Retained("6h", now)
            /\ Retained("6h", now) \subseteq Retained("24h", now)
            /\ Retained("24h", now) \subseteq Retained("7d", now)
            /\ Retained("7d", now) \subseteq Retained("all", now)
            /\ Retained("all", now) = PassWarningFilter
            /\ \A filter \in TimeFilters :
                  Undated \cap PassWarningFilter \subseteq Retained(filter, now)
            /\ showOnlyWarnings =>
                  /\ eventsPage.eventSummary.normals = 0
                  /\ eventsPage.eventSummary.others = 0
                  /\ eventsPage.eventSummary.total = eventsPage.eventSummary.warnings

\* the window widened to 6h and the checkbox unticked: of an event seven
\* hours old and an undated one the page keeps the undated one
C29_Witness ==
    /\ Displayed("eventsPage")
    /\ timeFilter = "6h"
    /\ ~showOnlyWarnings
    /\ Len(events) = 2
    /\ events[1].lastTimestamp = Some(1700000000 - 21600001)
    /\ Undated = {2}
    /\ eventsPage.filteredEvents = <<events[2]>>
    /\ Retained("24h", 1700000000) = {1, 2}

\* only warnings shown under the window all: the summary's total is its
\* warnings
C29_WitnessWarnings ==
    /\ Displayed("eventsPage")
    /\ timeFilter = "all"
    /\ showOnlyWarnings
    /\ Len(events) = 2
    /\ events[1].type = "Other"
    /\ eventsPage.eventSummary.total = 1

-----------------------------------------------------------------------------
(* Properties of the heatmap cells and the table rows of the pods page.    *)

\* C27: whether "show only issues" is ticked or not, the namespaces the pods
\* page shows as heatmap cells are the namespaces it shows as table rows;
\* and a click on a heatmap cell only ever adds the cell's namespace to the
\* expanded set: no namespace leaves the set and no other enters it.
C27_CellsAndRows ==
    [][/\ podsPage'.rendered =>
             /\ NamespacesOf(podsPage'.filteredHeatmapEntries)
                    = NamespacesOf(podsPage'.filteredNamespaceStats)
             /\ Len(podsPage'.filteredHeatmapEntries) = Len(podsPage'.filteredNamespaceStats)
             /\ ~podsPage'.showOnlyIssues =>
                    NamespacesOf(podsPage'.filteredNamespaceStats)
                        = NamespacesOf(podsPage'.namespaceStats)
       /\ \A namespace \in CellNamespaces :
             PodsPage_scrollToNamespace(namespace) =>
                 expandedNamespaces' = expandedNamespaces \cup {namespace}]_vars

\* the checkbox unticked: three cells and three rows, two of them of
\* namespaces without issues; the cell of b clicked while a was expanded
C27_Witness ==
    /\ Displayed("podsPage")
    /\ ~showOnlyIssues
    /\ ~podsPage.showOnlyIssues
    /\ NamespacesOf(podsPage.filteredHeatmapEntries) = {"a", "b", "<unknown>"}
    /\ NamespacesOf(podsPage.filteredNamespaceStats) = {"a", "b", "<unknown>"}
    /\ Len(podsPage.topNamespaces) = 1
    /\ expandedNamespaces = {"a", "b"}

\* the checkbox ticked: the namespaces without issues are neither cells nor
\* rows
C27_WitnessIssues ==
    /\ Displayed("podsPage")
    /\ showOnlyIssues
    /\ Len(podsPage.namespaceStats) = 3
    /\ NamespacesOf(podsPage.filteredHeatmapEntries) = {"a"}
    /\ NamespacesOf(podsPage.filteredNamespaceStats) = {"a"}

-----------------------------------------------------------------------------
(* Properties of the expanded rows.                                        *)

\* the set with the membership of key flipped and every other key as it was
Flipped(expanded, key) ==
    IF key \in expanded THEN expanded \ {key} ELSE expanded \cup {key}

\* C24: every call of a row toggle flips the membership of its key in the
\* page's expanded set and leaves every other key as it was, also when
\* toggles of different keys are called before the page has rendered again;
\* so a key is expanded exactly when it was toggled an odd number of times.
C24_TogglesFlipOneKey ==
    [][\A key \in RowKeys :
          /\ NodesPage_toggleNodeExpanded(key) => expandedNodes' = Flipped(expandedNodes, key)
          /\ PodsPage_toggleNamespace(key) =>
                 expandedNamespaces' = Flipped(expandedNamespaces, key)
          /\ EventsPage_toggleReasonExpanded(key) =>
                 expandedReasons' = Flipped(expandedReasons, key)]_vars

\* the same of the pods page alone, whose toggle is an updater of the set
\* that is current when it is applied
C24_PodsPageTogglesFlipOneKey ==
    [][\A key \in RowKeys :
          PodsPage_toggleNamespace(key) =>
              expandedNamespaces' = Flipped(expandedNamespaces, key)]_vars

\* the same of the nodes and events pages when every toggle is called on
\* rows drawn by a render that saw the present set
C24_TogglesOfCurrentRowsFlipOneKey ==
    [][\A key \in RowKeys :
          /\ (NodesPage_toggleNodeExpanded(key) /\ "nodesPage" \notin dirty) =>
                 expandedNodes' = Flipped(expandedNodes, key)
          /\ (EventsPage_toggleReasonExpanded(key) /\ "eventsPage" \notin dirty) =>
                 expandedReasons' = Flipped(expandedReasons, key)]_vars

-----------------------------------------------------------------------------
(* Properties of the store subscriptions.                                  *)

\* C26: on every page the subscriptions made by the mount effect are
\* disposed by the cleanup at unmount and at no other moment: while the page
\* is mounted it holds one undisposed subscription for each store it
\* subscribed to, and once it is unmounted each of them has been disposed
\* exactly once, so none stays active.
C26_SubscriptionsDisposedAtUnmount ==
    \A p \in Pages :
        /\ p \in mounted =>
              /\ Len(disposers[p]) = Len(SubscribedStores(p))
              /\ \A i \in 1..Len(disposers[p]) :
                    /\ disposers[p][i].store = SubscribedStores(p)[i]
                    /\ disposers[p][i].calls = 0
        /\ p \notin mounted =>
              \A i \in 1..Len(disposers[p]) : disposers[p][i].calls = 1

\* the SRE-stats page left after its four subscriptions, the nodes page
\* mounted with its two, the pods page opened again after it was left
C26_Witness ==
    /\ "sreStats" \notin mounted
    /\ Len(disposers.sreStats) = 4
    /\ \A i \in 1..4 : disposers.sreStats[i].calls = 1
    /\ "nodesPage" \in mounted
    /\ Len(disposers.nodesPage) = 2
    /\ "podsPage" \notin mounted
    /\ podsPage.rendered
    /\ Len(disposers.podsPage) = 3
    /\ "eventsPage" \notin mounted
    /\ ~eventsPage.rendered
    /\ Len(disposers.eventsPage) = 2

-----------------------------------------------------------------------------
(* Properties of the copies of the aggregations.                           *)

\* the reason and the count of every entry, in the order of the entries
ReasonCounts(wr) == [k \in 1..Len(wr) |-> [reason |-> wr[k].reason, count |-> wr[k].count]]

\* C30: on the same events the buildWarningReasons of the events page and
\* the one of the SRE-stats page return the same (reason, count) pairs in the
\* same order, and on the same pods and warning map the buildNamespacePodStats
\* of the pods page and the one of the SRE-stats page return the same
\* entries in the same order.
C30_CopiesAgree ==
    /\ (sreStats.rendered /\ eventsPage.rendered) =>
          /\ ReasonCounts(eventsPage.warningReasons) = ReasonCounts(sreStats.warningReasons)
          /\ ReasonCounts(EventsPage_buildWarningReasons(events)) = buildWarningReasons(events)
    /\ (sreStats.rendered /\ podsPage.rendered) =>
          /\ podsPage.warningEventsByNamespace = sreStats.warningEventsByNamespace
          /\ podsPage.namespaceStats = sreStats.namespaceStats

\* two reasons that the sort by count exchanges, two namespaces that the
\* sort by issues exchanges
C30_Witness ==
    /\ sreStats.rendered
    /\ podsPage.rendered
    /\ eventsPage.rendered
    /\ Len(events) = 2
    /\ events[1].reason = "BackOff"
    /\ Len(eventsPage.warningReasons) = 2
    /\ sreStats.warningReasons[1] = [reason |-> "FailedMount", count |-> 2]
    /\ Len(pods) = 2
    /\ pods[1].ns = "a"
    /\ Len(podsPage.namespaceStats) = 2
    /\ podsPage.namespaceStats[1].namespace = "b"
    /\ podsPage.namespaceStats[1].warningEvents = 2

====
